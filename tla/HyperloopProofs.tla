-------------------------- MODULE HyperloopProofs ---------------------------
(***************************************************************************)
(* For any binlog, queues, capacities, number of runs, crashes and         *)
(* lingering saves: the saved checkpoint never passes an unpublished row   *)
(* and is never moved back by the hyperloop itself, no event is dropped    *)
(* while nothing failed, the rows of a key are delivered in order, and a   *)
(* clean stop saves the last position.                                     *)
(***************************************************************************)
EXTENDS Hyperloop, SequenceTheorems, FiniteSetTheorems, TLAPS

\* No transaction lies on both sides of p: a source that resumes at p never
\* stamps a row with an earlier coordinate.
Boundary(p) == \A r \in Row : r > p => Base[r] >= p

\* A coordinate a run may start from: what it covers is in the log and, beyond
\* the place where capture began, on the topic.
SettledIn(p, end, from, D) ==
    p # NoPos => p \in 0..end /\ Boundary(p) /\ (from + 1)..p \subseteq D
Settled(p) == SettledIn(p, logEnd, captureFrom, durable)

\* Every coordinate that is in the store, or may still get there, is settled.
AllSettled ==
    /\ Boundary(logEnd)
    /\ Settled(start) /\ Settled(saved) /\ Settled(late) /\ Settled(comPos)

\* The source numbers the rows behind its start; goroutines belong to a run.
Sourced ==
    /\ start = NoPos => seq = 0
    /\ start # NoPos => start + seq <= logEnd
    /\ src = "stream" => start # NoPos
    /\ src = "connect" => seq = 0
    /\ src # "ended" => run > 0
    /\ \A q \in Queue : pub[q] # "ended" => run > 0

\* What the pipeline of the run holds, the run's source emitted; batches of
\* other runs are of earlier ones.
Pipe ==
    /\ Range(out) \subseteq EmittedRows
    /\ \A q \in Queue : /\ Range(queue[q]) \subseteq EmittedRows
                        /\ Range(batch[q]) \subseteq EmittedRows
    /\ \A b \in inflight : /\ b.run <= run
                           /\ b.run = run => b.rows \subseteq EmittedRows
    /\ \A b \in stray : b.run < run

\* The run's tracker: an acknowledged position is of a durable row of the run,
\* and the checkpoint is the end of the acknowledged prefix.
Tracked ==
    /\ DOMAIN acked \subseteq 1..seq
    /\ \A s \in DOMAIN acked : acked[s] = Base[s + start] /\ s + start \in durable
    /\ DOMAIN pending \subseteq DOMAIN acked
    /\ \A s \in DOMAIN pending : pending[s] = acked[s]
    /\ 1..(next - 1) \subseteq DOMAIN acked
    /\ DOMAIN acked \subseteq 1..(next - 1) \cup DOMAIN pending
    /\ next \notin DOMAIN pending
    /\ has <=> next > 1
    /\ has => ckpt = [SeqNo |-> next - 1, coord |-> acked[next - 1]]
    /\ dirty => has

\* The committer saves a checkpoint it took from the tracker, and it has ended
\* before run() makes its final commit.
Committing ==
    /\ com = "save" => has /\ comPos \in Coord /\ comPos <= ckpt.coord
    /\ phase \in {"idle", "final"} => com = "ended"

\* Unless a statement of Save outlived its client, what the run saves next is
\* not before what is in the store.
Forward ==
    (phase # "idle" /\ late = NoPos /\ saved # NoPos)
      => /\ start # NoPos
         /\ saved <= IF com = "save" THEN comPos ELSE IF has THEN ckpt.coord ELSE start

\* A component failure cancels hardCtx; as long as nothing failed, the pipeline
\* closes from its source to its publishers, each stage drained first.
Draining ==
    (phase # "idle") =>
      /\ firstErr # NoErr => hardCancelled
      /\ ~hardCancelled =>
           /\ disp = "ended" => src = "ended" /\ out = <<>>
           /\ \A q \in Queue :
                /\ ~open[q] => disp = "ended" /\ queue[q] = <<>>
                /\ (pub[q] = "ended" /\ sinkErr = NoErr) => ~open[q] /\ batch[q] = <<>>

\* run() calls Flush when everything has ended, and after a Flush that returned
\* nil every emitted event is acknowledged.
Flushed ==
    /\ phase = "flush" => Finished
    /\ (phase \in {"stopCommit", "final"} /\ ~runErr /\ ~hardCancelled)
         => Finished /\ EmittedRows = AckedRows

\* The inductive invariant.
Inv ==
    /\ TypeOK /\ AllSettled /\ Sourced /\ Pipe /\ Tracked /\ Committing /\ Forward
    /\ NeverDrops /\ Draining /\ Flushed

\* TypeOK by component.
TypeEnv ==
    /\ pick \in Picks /\ logEnd \in Coord
    /\ durable \subseteq Row /\ captured \subseteq Row /\ captureFrom \in Coord
TypeStore == saved \in Coord \cup {NoPos} /\ late \in Coord \cup {NoPos}
TypeLife ==
    /\ run \in 0..MaxRuns /\ phase \in Phases
    /\ status \in {"created", "running", "stopping", "stopped", "failed"}
    /\ ctxDone \in BOOLEAN /\ runErr \in BOOLEAN
TypeCancel ==
    srcCancelled \in BOOLEAN /\ hardCancelled \in BOOLEAN /\ firstErr \in Errors
TypeFeed ==
    /\ src \in {"connect", "stream", "ended"}
    /\ start \in Coord \cup {NoPos} /\ seq \in Coord
    /\ out \in Seq(Row) /\ disp \in {"run", "ended"} /\ queue \in [Queue -> Seq(Row)]
TypePub ==
    /\ batch \in [Queue -> Seq(Row)] /\ open \in [Queue -> BOOLEAN]
    /\ pub \in [Queue -> {"drain", "publish", "token", "ended"}]
TypeSink ==
    /\ inflight \subseteq InflightBatches /\ stray \subseteq InflightBatches
    /\ Cardinality(inflight) <= MaxInflight /\ sinkErr \in Errors
TypeTrack ==
    /\ next \in 1..(MaxRow + 1) /\ pending \in T!Batches /\ acked \in T!Batches
    /\ ckpt \in [SeqNo : 0..MaxRow, coord : Coord \cup {NoPos}]
    /\ has \in BOOLEAN /\ dirty \in BOOLEAN
TypeCom == com \in {"idle", "save", "ended"} /\ comPos \in Coord \cup {NoPos}

Types ==
    /\ TypeEnv /\ TypeStore /\ TypeLife /\ TypeCancel /\ TypeFeed /\ TypePub
    /\ TypeSink /\ TypeTrack /\ TypeCom

LEMMA TypesAreTypeOK == TypeOK <=> Types
  BY DEF TypeOK, Types, TypeEnv, TypeStore, TypeLife, TypeCancel, TypeFeed, TypePub,
         TypeSink, TypeTrack, TypeCom

\* Only finitely many batches exist, so that the slots in use can be counted.
LEMMA BatchesFinite == \A S \in SUBSET InflightBatches : IsFiniteSet(S)
<1> DEFINE P == (1..MaxRuns) \X (SUBSET Row)
           f == [p \in P |-> [run |-> p[1], rows |-> p[2]]]
<1>1. IsFiniteSet(1..MaxRuns) /\ IsFiniteSet(Row)
  BY FS_Interval, BoundsAssumption DEF Row
<1>2. IsFiniteSet(SUBSET Row)
  BY <1>1, FS_SUBSET
<1>3. IsFiniteSet(P)
  BY <1>1, <1>2, FS_Product
<1>4. f \in Surjection(P, InflightBatches)
  <2>1. f \in [P -> InflightBatches]
    BY DEF InflightBatches
  <2>2. \A b \in InflightBatches : \E p \in P : f[p] = b
    <3> SUFFICES ASSUME NEW b \in InflightBatches PROVE \E p \in P : f[p] = b
      OBVIOUS
    <3>1. <<b.run, b.rows>> \in P /\ b = [run |-> b.run, rows |-> b.rows]
      BY DEF InflightBatches
    <3> QED
      BY <3>1
  <2> QED
    BY <2>1, <2>2 DEF Surjection
<1>5. IsFiniteSet(InflightBatches)
  BY <1>3, <1>4, FS_Surjection
<1> QED
  BY <1>5, FS_Subset

\* A slot that was free is taken, or one is given back.
LEMMA SlotTaken ==
    ASSUME NEW S \in SUBSET InflightBatches, NEW b, Cardinality(S) < MaxInflight
    PROVE  Cardinality(S \cup {b}) <= MaxInflight
<1>1. IsFiniteSet(S) /\ MaxInflight \in Nat
  BY BatchesFinite, BoundsAssumption
<1>2. Cardinality(S) \in Nat
  BY <1>1, FS_CardinalityType
<1>3. Cardinality(S \cup {b}) \in {Cardinality(S), Cardinality(S) + 1}
  BY <1>1, FS_AddElement
<1> QED
  BY <1>1, <1>2, <1>3

LEMMA SlotFreed ==
    ASSUME NEW S \in SUBSET InflightBatches, NEW b, Cardinality(S) <= MaxInflight
    PROVE  Cardinality(S \ {b}) <= MaxInflight
<1>1. IsFiniteSet(S) /\ MaxInflight \in Nat
  BY BatchesFinite, BoundsAssumption
<1>2. Cardinality(S) \in Nat
  BY <1>1, FS_CardinalityType
<1>3. Cardinality(S \ {b}) \in {Cardinality(S), Cardinality(S) - 1}
  BY <1>1, FS_RemoveElement
<1> QED
  BY <1>1, <1>2, <1>3

LEMMA NoSlotTaken == Cardinality({}) <= MaxInflight
  BY FS_EmptySet, BoundsAssumption

LEMMA RowsAreInts ==
    /\ MaxRow \in Nat /\ NoPos \notin Int /\ NoPos \notin Coord
    /\ Base \in [Row -> Coord] /\ \A r \in Row : Base[r] \in Nat /\ Base[r] < r
  BY BoundsAssumption, RowsAssumption DEF Row, Coord

\* The coordinate after the last row of a transaction is a boundary, and so is
\* the coordinate every row is stamped with.
LEMMA BoundaryAt ==
    ASSUME NEW e \in Coord, e = MaxRow \/ Base[e + 1] = e
    PROVE  Boundary(e)
<1> SUFFICES ASSUME NEW r \in Row, r > e PROVE Base[r] >= e
  BY DEF Boundary
<1>1. e \in Nat /\ r \in Nat /\ r <= MaxRow /\ e # MaxRow /\ MaxRow \in Nat
  BY RowsAreInts DEF Row, Coord
<1>2. e + 1 \in Row /\ e + 1 <= r
  BY <1>1 DEF Row
<1>3. Base[e + 1] = e /\ Base[e + 1] <= Base[r]
  BY <1>1, <1>2, RowsAssumption
<1> QED
  BY <1>3, RowsAreInts

LEMMA BoundaryBase ==
    ASSUME NEW s \in Row
    PROVE  Base[s] \in Coord /\ Boundary(Base[s])
<1> SUFFICES ASSUME NEW r \in Row, r > Base[s] PROVE Base[r] >= Base[s]
  BY RowsAreInts DEF Boundary
<1>1. r \in Nat /\ s \in Nat /\ Base[r] \in Nat /\ Base[s] \in Nat
  BY RowsAreInts DEF Row
<1>2. CASE s <= r
  BY <1>1, <1>2, RowsAssumption
<1>3. CASE r < s
  <2>1. r <= s /\ Base[s] < r
    BY <1>1, <1>3
  <2>2. Base[r] = Base[s]
    BY <2>1, RowsAssumption
  <2> QED
    BY <1>1, <2>2
<1> QED
  BY <1>1, <1>2, <1>3

\* What a step leaves alone keeps its part of the invariant.
LEMMA TypeFrame ==
    /\ TypeEnv /\ UNCHANGED envVars => TypeEnv'
    /\ TypeStore /\ UNCHANGED storeVars => TypeStore'
    /\ TypeLife /\ UNCHANGED lifeVars => TypeLife'
    /\ TypeCancel /\ UNCHANGED cancelVars => TypeCancel'
    /\ TypeFeed /\ UNCHANGED feedVars => TypeFeed'
    /\ TypePub /\ UNCHANGED pubVars => TypePub'
    /\ TypeSink /\ UNCHANGED sinkVars => TypeSink'
    /\ TypeTrack /\ UNCHANGED trackerVars => TypeTrack'
    /\ TypeCom /\ UNCHANGED comVars => TypeCom'
<1>1. TypeEnv /\ UNCHANGED envVars => TypeEnv'
  BY DEF TypeEnv, envVars
<1>2. TypeStore /\ UNCHANGED storeVars => TypeStore'
  BY DEF TypeStore, storeVars
<1>3. TypeLife /\ UNCHANGED lifeVars => TypeLife'
  BY DEF TypeLife, lifeVars
<1>4. TypeCancel /\ UNCHANGED cancelVars => TypeCancel'
  BY DEF TypeCancel, cancelVars
<1>5. TypeFeed /\ UNCHANGED feedVars => TypeFeed'
  BY DEF TypeFeed, feedVars, sourceVars, dispVars
<1>6. TypePub /\ UNCHANGED pubVars => TypePub'
  BY DEF TypePub, pubVars
<1>7. TypeSink /\ UNCHANGED sinkVars => TypeSink'
  BY DEF TypeSink, sinkVars
<1>8. TypeTrack /\ UNCHANGED trackerVars => TypeTrack'
  BY DEF TypeTrack, trackerVars
<1>9. TypeCom /\ UNCHANGED comVars => TypeCom'
  BY DEF TypeCom, comVars
<1> QED
  BY <1>1, <1>2, <1>3, <1>4, <1>5, <1>6, <1>7, <1>8, <1>9

\* A settled coordinate stays settled while log and topic grow.
LEMMA SettledMono ==
    ASSUME NEW p, NEW e \in Coord, NEW f \in Coord, e <= f, NEW from, NEW D, NEW E,
           D \subseteq E, SettledIn(p, e, from, D)
    PROVE  SettledIn(p, f, from, E)
  BY BoundsAssumption DEF SettledIn, Coord

LEMMA Frame ==
    /\ AllSettled /\ UNCHANGED <<logEnd, start, saved, late, comPos, captureFrom, durable>>
         => AllSettled'
    /\ Sourced /\ UNCHANGED <<logEnd, start, seq, src, pub, run>> => Sourced'
    /\ Pipe /\ UNCHANGED <<start, seq, out, queue, batch, inflight, stray, run>> => Pipe'
    /\ Tracked /\ UNCHANGED <<start, seq, next, pending, ckpt, has, dirty, acked>>
         /\ durable \subseteq durable' => Tracked'
    /\ Committing /\ UNCHANGED <<com, comPos, has, ckpt, phase>> => Committing'
    /\ Forward /\ UNCHANGED <<phase, late, saved, start, com, comPos, has, ckpt>> => Forward'
    /\ NeverDrops /\ UNCHANGED <<phase, sinkErr, start, seq, out, queue, batch, inflight,
                                 run, acked>>
         /\ (hardCancelled => hardCancelled') => NeverDrops'
    /\ Draining /\ UNCHANGED <<phase, disp, src, out, open, queue, pub, sinkErr, batch>>
         /\ (hardCancelled => hardCancelled') /\ (firstErr' = firstErr \/ hardCancelled')
         => Draining'
    /\ Flushed /\ UNCHANGED <<phase, runErr, src, disp, pub, start, seq, acked>>
         /\ (hardCancelled => hardCancelled') => Flushed'
<1>1. AllSettled /\ UNCHANGED <<logEnd, start, saved, late, comPos, captureFrom, durable>>
        => AllSettled'
  BY DEF AllSettled, Settled
<1>2. Sourced /\ UNCHANGED <<logEnd, start, seq, src, pub, run>> => Sourced'
  BY DEF Sourced
<1>3. Pipe /\ UNCHANGED <<start, seq, out, queue, batch, inflight, stray, run>> => Pipe'
  BY DEF Pipe, EmittedRows
<1>4. Tracked /\ UNCHANGED <<start, seq, next, pending, ckpt, has, dirty, acked>>
        /\ durable \subseteq durable' => Tracked'
  BY DEF Tracked
<1>5. Committing /\ UNCHANGED <<com, comPos, has, ckpt, phase>> => Committing'
  BY DEF Committing
<1>6. Forward /\ UNCHANGED <<phase, late, saved, start, com, comPos, has, ckpt>> => Forward'
  BY DEF Forward
<1>7. NeverDrops /\ UNCHANGED <<phase, sinkErr, start, seq, out, queue, batch, inflight,
                               run, acked>>
        /\ (hardCancelled => hardCancelled') => NeverDrops'
  BY DEF NeverDrops, EmittedRows, InPipe, AckedRows
<1>8. Draining /\ UNCHANGED <<phase, disp, src, out, open, queue, pub, sinkErr, batch>>
        /\ (hardCancelled => hardCancelled') /\ (firstErr' = firstErr \/ hardCancelled')
        => Draining'
  BY DEF Draining
<1>9. Flushed /\ UNCHANGED <<phase, runErr, src, disp, pub, start, seq, acked>>
        /\ (hardCancelled => hardCancelled') => Flushed'
  BY DEF Flushed, Finished, EmittedRows, AckedRows
<1> QED
  BY <1>1, <1>2, <1>3, <1>4, <1>5, <1>6, <1>7, <1>8, <1>9

----------------------------------------------------------------------------
(* Channels and batches as the sets of rows they hold. *)
LEMMA RangeEmpty == Range(<<>>) = {}
  BY DEF Range

LEMMA RangeAppend ==
    ASSUME NEW S, NEW s \in Seq(S), NEW r \in S
    PROVE  Append(s, r) \in Seq(S) /\ Range(Append(s, r)) = Range(s) \cup {r}
<1>1. /\ Append(s, r) \in Seq(S) /\ Len(Append(s, r)) = Len(s) + 1 /\ Len(s) \in Nat
      /\ \A i \in 1..Len(s) : Append(s, r)[i] = s[i]
      /\ Append(s, r)[Len(s) + 1] = r
  OBVIOUS
<1>2. DOMAIN Append(s, r) = 1..(Len(s) + 1) /\ DOMAIN s = 1..Len(s)
  BY <1>1
<1>3. 1..(Len(s) + 1) = 1..Len(s) \cup {Len(s) + 1}
  BY <1>1
<1> QED
  BY <1>1, <1>2, <1>3 DEF Range

LEMMA RangeTail ==
    ASSUME NEW S, NEW s \in Seq(S), s # <<>>
    PROVE  /\ Head(s) \in S /\ Tail(s) \in Seq(S)
           /\ Range(s) = {Head(s)} \cup Range(Tail(s))
<1>1. Len(s) \in Nat /\ Len(s) >= 1 /\ DOMAIN s = 1..Len(s) /\ Head(s) = s[1]
  BY EmptySeq
<1>2. /\ Tail(s) \in Seq(S) /\ Len(Tail(s)) = Len(s) - 1
      /\ \A i \in 1..(Len(s) - 1) : Tail(s)[i] = s[i + 1]
  BY <1>1
<1>3. DOMAIN Tail(s) = 1..(Len(s) - 1)
  BY <1>1, <1>2
<1>4. \A i \in 1..Len(s) : i = 1 \/ (i - 1 \in 1..(Len(s) - 1) /\ s[i] = Tail(s)[i - 1])
  BY <1>1, <1>2
<1>5. \A i \in 1..(Len(s) - 1) : i + 1 \in 1..Len(s) /\ Tail(s)[i] = s[i + 1]
  BY <1>1, <1>2
<1>6. Head(s) \in S
  BY <1>1
<1>7. \A i \in DOMAIN s : s[i] \in {Head(s)} \cup {Tail(s)[j] : j \in DOMAIN Tail(s)}
  BY <1>1, <1>3, <1>4
<1>8. \A j \in DOMAIN Tail(s) : Tail(s)[j] \in {s[i] : i \in DOMAIN s}
  BY <1>1, <1>3, <1>5
<1>9. Head(s) \in {s[i] : i \in DOMAIN s}
  BY <1>1
<1>10. {s[i] : i \in DOMAIN s} = {Head(s)} \cup {Tail(s)[j] : j \in DOMAIN Tail(s)}
  BY <1>7, <1>8, <1>9, Zenon
<1> QED
  BY <1>2, <1>6, <1>10, Zenon DEF Range

----------------------------------------------------------------------------
USE DEF mainVars, workVars, feedVars, ackVars, envVars, storeVars, lifeVars, cancelVars,
        sourceVars, dispVars, pubVars, sinkVars, trackerVars, comVars

\* The parts of the invariant, with the types by component.
LEMMA InvParts ==
    Inv <=> /\ Types /\ AllSettled /\ Sourced /\ Pipe /\ Tracked /\ Committing
            /\ Forward /\ NeverDrops /\ Draining /\ Flushed
  BY TypesAreTypeOK DEF Inv

LEMMA InvPartsPrime ==
    Inv' <=> /\ Types' /\ AllSettled' /\ Sourced' /\ Pipe' /\ Tracked' /\ Committing'
             /\ Forward' /\ NeverDrops' /\ Draining' /\ Flushed'
  BY InvParts, PTL

\* A stop request only sets its flag.
LEMMA StopInv == ASSUME Inv, Stop PROVE Inv'
<1>1. TypeLife'
  BY InvParts DEF Stop, Types, TypeLife
<1>2. /\ ctxDone' = TRUE
      /\ UNCHANGED <<envVars, storeVars, run, phase, status, runErr, cancelVars, workVars>>
  BY DEF Stop
<1>3. Types'
  BY <1>1, <1>2, InvParts, TypeFrame DEF Types
<1> QED
  BY <1>2, <1>3, InvParts, InvPartsPrime, Frame

\* A lingering statement writes a settled coordinate.
LEMMA LateSaveInv == ASSUME Inv, LateSave PROVE Inv'
<1>1. /\ late # NoPos /\ saved' = late
      /\ UNCHANGED <<late, envVars, lifeVars, cancelVars, workVars>>
  BY DEF LateSave
<1>2. TypeStore'
  BY <1>1, InvParts DEF Types, TypeStore
<1>3. Types'
  BY <1>1, <1>2, InvParts, TypeFrame DEF Types
<1>4. AllSettled'
  BY <1>1, InvParts DEF AllSettled, Settled
<1>5. Forward'
  BY <1>1 DEF Forward
<1> QED
  BY <1>1, <1>3, <1>4, <1>5, InvParts, InvPartsPrime, Frame

\* The binlog grows by whole transactions.
LEMMA BinlogCommitInv == ASSUME Inv, BinlogCommit PROVE Inv'
<1>1. /\ logEnd' \in Row /\ logEnd' > logEnd
      /\ logEnd' = MaxRow \/ Base[logEnd' + 1] = logEnd'
      /\ UNCHANGED <<pick, durable, captured, captureFrom, storeVars, lifeVars,
                     cancelVars, workVars>>
  BY DEF BinlogCommit
<1>2. logEnd' \in Coord /\ logEnd \in Coord /\ logEnd <= logEnd'
  BY <1>1, BoundsAssumption, InvParts DEF Types, TypeEnv, Row, Coord
<1>3. Types'
  <2>1. TypeEnv'
    BY <1>1, <1>2, InvParts DEF Types, TypeEnv
  <2> QED
    BY <1>1, <2>1, InvParts, TypeFrame DEF Types
<1>4. AllSettled'
  <2>1. Boundary(logEnd')
    BY <1>1, <1>2, BoundaryAt
  <2> QED
    BY <1>1, <1>2, <2>1, InvParts, SettledMono DEF AllSettled, Settled, Boundary
<1>5. Sourced'
  <2>1. start # NoPos => start + seq <= logEnd'
    BY <1>2, InvParts, BoundsAssumption DEF Sourced, Types, TypeFeed, Coord
  <2> QED
    BY <1>1, <2>1, InvParts DEF Sourced
<1> QED
  BY <1>1, <1>3, <1>4, <1>5, InvParts, InvPartsPrime, Frame

----------------------------------------------------------------------------
(* run() *)

\* The checkpoint is not before the run's start, and what it covers is durable.
LEMMA CkptSettled ==
    ASSUME Types, AllSettled, Sourced, Tracked, has
    PROVE  /\ start \in Coord /\ seq > 0
           /\ ckpt.coord \in Coord /\ Settled(ckpt.coord) /\ start <= ckpt.coord
<1>1. /\ seq \in Nat /\ next \in Nat /\ next > 1 /\ logEnd \in 0..MaxRow
      /\ captureFrom \in Nat /\ MaxRow \in Nat
  BY RowsAreInts DEF Types, TypeFeed, TypeTrack, TypeEnv, Tracked, Coord
<1>2. next - 1 \in 1..(next - 1)
  BY <1>1
<1>3. next - 1 \in DOMAIN acked /\ next - 1 \in 1..seq
  BY <1>2 DEF Tracked
<1>4. start \in Coord /\ start \in Nat /\ start + seq <= logEnd
  BY <1>1, <1>3, RowsAreInts DEF Sourced, Types, TypeFeed, Coord
<1> DEFINE r == next - 1 + start
<1>5. r \in Row /\ r > start /\ r <= logEnd /\ r \in Nat
  BY <1>1, <1>3, <1>4 DEF Row
<1>6. ckpt.coord = Base[r]
  BY <1>3 DEF Tracked
<1>7. Base[r] \in Nat /\ Base[r] < r
  BY <1>5, RowsAreInts
<1>8. Boundary(Base[r]) /\ Base[r] \in Coord
  BY <1>5, BoundaryBase
<1>9. start <= Base[r]
  <2>1. Boundary(start)
    BY <1>4, RowsAreInts DEF AllSettled, Settled, SettledIn
  <2> QED
    BY <1>4, <1>5, <1>7, <2>1 DEF Boundary
<1>10. ASSUME NEW x \in (captureFrom + 1)..Base[r] PROVE x \in durable
  <2>1. x \in Nat /\ x < r
    BY <1>1, <1>7, <1>5
  <2>2. CASE x <= start
    <3>1. x \in (captureFrom + 1)..start
      BY <1>1, <1>4, <1>10, <2>1, <2>2
    <3> QED
      BY <1>4, <3>1, RowsAreInts DEF AllSettled, Settled, SettledIn
  <2>3. CASE x > start
    <3>1. x - start \in 1..(next - 1) /\ x - start + start = x
      BY <1>1, <1>4, <2>1, <2>3
    <3> QED
      BY <3>1 DEF Tracked
  <2> QED
    BY <1>4, <2>1, <2>2, <2>3
<1> HIDE DEF r
<1>11. Base[r] \in 0..logEnd
  BY <1>1, <1>5, <1>7
<1> QED
  BY <1>3, <1>1, <1>4, <1>6, <1>8, <1>9, <1>10, <1>11 DEF Settled, SettledIn

\* When every goroutine has ended and nothing failed, the pipeline is empty.
LEMMA FinishedIsEmpty ==
    ASSUME Inv, phase # "idle", Finished, ~hardCancelled, sinkErr = NoErr, inflight = {}
    PROVE  EmittedRows = AckedRows
<1>1. out = <<>> /\ \A q \in Queue : queue[q] = <<>> /\ batch[q] = <<>>
  BY InvParts DEF Draining, Finished
<1>2. InPipe = {}
  BY <1>1, RangeEmpty DEF InPipe
<1>3. EmittedRows = InPipe \cup AckedRows
  BY InvParts DEF NeverDrops
<1> QED
  BY <1>2, <1>3

\* The selects, timeouts and waits of run().
LEMMA PhaseInv ==
    ASSUME Inv, \/ SelectStop \/ SelectFinished \/ DrainTimeout \/ Abandon
                \/ FlushDone \/ FlushTimeout \/ CommitterGone
    PROVE  Inv'
<1> USE DEF SelectStop, SelectFinished, DrainTimeout, Abandon, FlushDone, FlushTimeout,
            CommitterGone
<1>1. /\ UNCHANGED <<envVars, storeVars, run, ctxDone, firstErr, workVars>>
      /\ phase # "idle" /\ phase' # "idle"
      /\ hardCancelled' \in {hardCancelled, TRUE}
      /\ srcCancelled' \in {srcCancelled, TRUE}
  OBVIOUS
<1>2. phase' = "final" => com = "ended"
  OBVIOUS
<1>3. Types'
  <2>1. TypeLife'
    BY InvParts DEF Types, TypeLife, Phases
  <2>2. TypeCancel'
    BY <1>1, InvParts DEF Types, TypeCancel
  <2> QED
    BY <1>1, <2>1, <2>2, InvParts, TypeFrame DEF Types
<1>4. Flushed'
  <2>1. CASE SelectFinished
    BY <2>1 DEF Flushed, Finished
  <2>2. CASE FlushDone
    <3>1. Finished /\ phase = "flush" /\ phase' = "stopCommit" /\ inflight = {}
          /\ runErr' = (sinkErr # NoErr) /\ hardCancelled' = hardCancelled
      BY <2>2, InvParts DEF Flushed
    <3>2. ~runErr' /\ ~hardCancelled' => EmittedRows = AckedRows
      BY <3>1, FinishedIsEmpty
    <3> QED
      BY <1>1, <3>1, <3>2 DEF Flushed, Finished, EmittedRows, AckedRows
  <2>3. CASE CommitterGone
    <3>1. phase = "stopCommit" /\ phase' = "final" /\ runErr' = runErr
          /\ hardCancelled' = hardCancelled
      BY <2>3
    <3> QED
      BY <1>1, <3>1, InvParts DEF Flushed, Finished, EmittedRows, AckedRows
  <2>4. CASE SelectStop \/ DrainTimeout
    <3>1. phase' \in {"drain", "hard"}
      BY <2>4
    <3> QED
      BY <3>1 DEF Flushed
  <2>5. CASE Abandon \/ FlushTimeout
    <3>1. phase' = "stopCommit" /\ runErr'
      BY <2>5
    <3> QED
      BY <3>1 DEF Flushed
  <2> QED
    BY <2>1, <2>2, <2>3, <2>4, <2>5
<1>5. Committing'
  BY <1>1, <1>2, InvParts DEF Committing
<1>6. Forward'
  BY <1>1, InvParts DEF Forward
<1>7. NeverDrops'
  BY <1>1, InvParts DEF NeverDrops, EmittedRows, InPipe, AckedRows
<1>8. Draining'
  BY <1>1, InvParts DEF Draining
<1> QED
  BY <1>1, <1>3, <1>4, <1>5, <1>6, <1>7, <1>8, InvParts, InvPartsPrime, Frame

\* Saving a settled coordinate, whatever becomes of the statement.
LEMMA SaveSettled ==
    ASSUME Types, AllSettled, NEW p \in Coord, Settled(p), Save(p) \/ SaveFails(p),
           UNCHANGED <<logEnd, captureFrom>>, durable \subseteq durable'
    PROVE  /\ TypeStore'
           /\ SettledIn(saved', logEnd', captureFrom', durable')
           /\ SettledIn(late', logEnd', captureFrom', durable')
<1>1. saved' \in {saved, p} /\ late' \in {late, p}
  BY DEF Save, SaveFails, Lingers
<1>2. TypeStore'
  BY <1>1 DEF Types, TypeStore
<1>3. /\ SettledIn(saved', logEnd, captureFrom, durable)
      /\ SettledIn(late', logEnd, captureFrom, durable)
  BY <1>1 DEF AllSettled, Settled
<1>4. logEnd \in Coord /\ logEnd <= logEnd
  BY RowsAreInts DEF Types, TypeEnv, Coord
<1> QED
  BY <1>2, <1>3, <1>4, SettledMono

\* The final commit, and the return of run().
LEMMA FinalInv == ASSUME Inv, FinalCommit \/ FinalCommitFails PROVE Inv'
<1>1. /\ phase = "final" /\ phase' = "idle" /\ runErr' \in BOOLEAN
      /\ status' \in {"failed", "stopped"} /\ srcCancelled' = TRUE /\ hardCancelled' = TRUE
      /\ UNCHANGED <<envVars, run, ctxDone, firstErr, workVars>>
  BY InvParts DEF FinalCommit, FinalCommitFails, Return, Types, TypeLife
<1>2. /\ TypeStore'
      /\ SettledIn(saved', logEnd', captureFrom', durable')
      /\ SettledIn(late', logEnd', captureFrom', durable')
  <2>1. CASE UNCHANGED storeVars
    BY <1>1, <2>1, InvParts DEF AllSettled, Settled, Types, TypeStore
  <2>2. CASE has /\ (Save(ckpt.coord) \/ SaveFails(ckpt.coord))
    <3>1. ckpt.coord \in Coord /\ Settled(ckpt.coord)
      BY <2>2, InvParts, CkptSettled
    <3> QED
      BY <1>1, <2>2, <3>1, InvParts, SaveSettled
  <2> QED
    BY <2>1, <2>2 DEF FinalCommit, FinalCommitFails
<1>3. Types'
  <2>1. TypeLife' /\ TypeCancel'
    BY <1>1, InvParts DEF Types, TypeLife, TypeCancel, Phases
  <2> QED
    BY <1>1, <1>2, <2>1, InvParts, TypeFrame DEF Types
<1>4. AllSettled'
  BY <1>1, <1>2, InvParts DEF AllSettled, Settled
<1>5. Committing'
  BY <1>1, InvParts DEF Committing
<1>6. Forward' /\ NeverDrops' /\ Draining' /\ Flushed'
  BY <1>1 DEF Forward, NeverDrops, Draining, Flushed
<1> QED
  BY <1>1, <1>3, <1>4, <1>5, <1>6, InvParts, InvPartsPrime, Frame

----------------------------------------------------------------------------
(* The committer *)

\* fail cancels both contexts, or it does nothing.
LEMMA FailCancels ==
    ASSUME TypeCancel, NEW e \in Errors, fail(e)
    PROVE  /\ TypeCancel' /\ (hardCancelled => hardCancelled')
           /\ firstErr' = firstErr \/ hardCancelled'
<1>1. CASE UNCHANGED cancelVars
  BY <1>1 DEF TypeCancel
<1>2. CASE firstErr' = e /\ srcCancelled' = TRUE /\ hardCancelled' = TRUE
  BY <1>2 DEF TypeCancel
<1> QED
  BY <1>1, <1>2 DEF fail

\* The tick takes the checkpoint, if it moved.
LEMMA CommitterTickInv == ASSUME Inv, CommitterTick PROVE Inv'
<1>1. /\ com = "idle" /\ fail(sinkErr)
      /\ UNCHANGED <<envVars, storeVars, lifeVars, feedVars, pubVars, sinkVars, acked>>
      /\ UNCHANGED <<next, pending, ckpt, has>>
  BY DEF CommitterTick, T!TakeDirty
<1>2. \/ UNCHANGED <<com, comPos, dirty>>
      \/ dirty /\ com' = "save" /\ comPos' = ckpt.coord /\ dirty' = FALSE
  BY DEF CommitterTick, T!TakeDirty
<1>3. /\ TypeCancel' /\ (hardCancelled => hardCancelled')
      /\ firstErr' = firstErr \/ hardCancelled'
  BY <1>1, InvParts, FailCancels DEF Types, TypeSink
<1>4. dirty => /\ has /\ ckpt.coord \in Coord /\ Settled(ckpt.coord)
               /\ ckpt.coord <= ckpt.coord
  BY InvParts, CkptSettled, RowsAreInts DEF Tracked, Coord
<1>5. Types'
  <2>1. TypeTrack'
    BY <1>1, <1>2, InvParts DEF Types, TypeTrack
  <2>2. TypeCom'
    BY <1>2, <1>4, InvParts DEF Types, TypeCom
  <2> QED
    BY <1>1, <1>3, <2>1, <2>2, InvParts, TypeFrame DEF Types
<1>6. AllSettled'
  BY <1>1, <1>2, <1>4, InvParts DEF AllSettled, Settled
<1>7. Tracked'
  BY <1>1, <1>2, InvParts DEF Tracked
<1>8. Committing'
  BY <1>1, <1>2, <1>4, InvParts DEF Committing
<1>9. Forward'
  BY <1>1, <1>2, <1>4, InvParts DEF Forward
<1> QED
  BY <1>1, <1>3, <1>5, <1>6, <1>7, <1>8, <1>9, InvParts, InvPartsPrime, Frame

\* A save of the committer succeeds or reports an error.
LEMMA CommitterSaveInv == ASSUME Inv, CommitterSaved \/ CommitterSaveFails PROVE Inv'
<1>1. /\ com = "save" /\ com' = "idle" /\ comPos' = NoPos
      /\ Save(comPos) \/ SaveFails(comPos)
      /\ UNCHANGED <<envVars, lifeVars, cancelVars, feedVars, pubVars, sinkVars, acked>>
      /\ UNCHANGED <<next, pending, ckpt, has>> /\ dirty' \in {dirty, TRUE}
  BY DEF CommitterSaved, CommitterSaveFails, T!Redirty
<1>2. /\ has /\ comPos \in Coord /\ comPos <= ckpt.coord /\ phase # "idle"
      /\ phase # "final" /\ Settled(comPos)
  BY <1>1, InvParts DEF Committing, AllSettled
<1>3. start \in Coord /\ ckpt.coord \in Coord
  BY <1>2, InvParts, CkptSettled
<1>4. /\ TypeStore'
      /\ SettledIn(saved', logEnd', captureFrom', durable')
      /\ SettledIn(late', logEnd', captureFrom', durable')
  BY <1>1, <1>2, InvParts, SaveSettled
<1>5. Types'
  <2>1. TypeTrack' /\ TypeCom'
    BY <1>1, InvParts DEF Types, TypeTrack, TypeCom
  <2> QED
    BY <1>1, <1>4, <2>1, InvParts, TypeFrame DEF Types
<1>6. AllSettled'
  <2>1. SettledIn(comPos', logEnd', captureFrom', durable')
    BY <1>1 DEF SettledIn
  <2> QED
    BY <1>1, <1>4, <2>1, InvParts DEF AllSettled, Settled
<1>7. Tracked'
  BY <1>1, <1>2, InvParts DEF Tracked
<1>8. Committing'
  BY <1>1, <1>2 DEF Committing
<1>9. Forward'
  <2> SUFFICES ASSUME late' = NoPos, saved' # NoPos PROVE start # NoPos /\ saved' <= ckpt.coord
    BY <1>1, <1>2 DEF Forward
  <2>1. start # NoPos /\ saved' \in {saved, comPos} /\ late = NoPos
    BY <1>1, <1>2, <1>3, RowsAreInts DEF Save, SaveFails, Lingers
  <2>2. CASE saved' = comPos
    BY <1>2, <2>1, <2>2
  <2>3. CASE saved' = saved
    <3>1. saved <= comPos
      BY <1>1, <1>2, <2>1, <2>3, InvParts DEF Forward
    <3>2. saved \in Int /\ comPos \in Int /\ ckpt.coord \in Int
      BY <1>2, <1>3, <2>3, InvParts DEF Types, TypeStore, Coord
    <3> QED
      BY <1>2, <2>1, <2>3, <3>1, <3>2
  <2> QED
    BY <2>1, <2>2, <2>3
<1> QED
  BY <1>1, <1>5, <1>6, <1>7, <1>8, <1>9, InvParts, InvPartsPrime, Frame

LEMMA CommitterStopsInv == ASSUME Inv, CommitterStops PROVE Inv'
<1>1. /\ com = "idle" /\ com' = "ended"
      /\ UNCHANGED <<mainVars, feedVars, pubVars, sinkVars, trackerVars, comPos>>
  BY DEF CommitterStops
<1>2. Types'
  <2>1. TypeCom'
    BY <1>1, InvParts DEF Types, TypeCom
  <2> QED
    BY <1>1, <2>1, InvParts, TypeFrame DEF Types
<1>3. Committing' /\ Forward'
  BY <1>1, InvParts DEF Committing, Forward
<1> QED
  BY <1>1, <1>2, <1>3, InvParts, InvPartsPrime, Frame

----------------------------------------------------------------------------
(* A run begins, or the process dies *)

LEMMA EmptyBatch == <<>> \in T!Batches /\ DOMAIN <<>> = {}
<1>1. <<>> \in [{} -> Coord]
  OBVIOUS
<1> QED
  BY <1>1 DEF T!Batches

\* A new tracker has seen nothing.
LEMMA NewTrackerInv == ASSUME NewTracker PROVE TypeTrack' /\ Tracked' /\ ~has'
<1>1. /\ next' = 1 /\ pending' = <<>> /\ acked' = <<>> /\ has' = FALSE /\ dirty' = FALSE
      /\ ckpt' = [SeqNo |-> 0, coord |-> NoPos]
  BY DEF NewTracker, T!ZeroPosition
<1>2. TypeTrack'
  <2>1. next' \in 1..(MaxRow + 1) /\ 0 \in 0..MaxRow
    BY <1>1, RowsAreInts
  <2>2. ckpt' \in [SeqNo : 0..MaxRow, coord : Coord \cup {NoPos}]
    BY <1>1, <2>1
  <2> QED
    BY <1>1, <2>1, <2>2, EmptyBatch DEF TypeTrack
<1>3. Tracked'
  BY <1>1, EmptyBatch DEF Tracked
<1> QED
  BY <1>1, <1>2, <1>3

\* Before the first run.
LEMMA InitInv == Init => Inv
<1> SUFFICES ASSUME Init PROVE Inv
  OBVIOUS
<1>1. Types
  <2>1. TypeEnv
    BY RowsAreInts DEF Init, TypeEnv, Coord
  <2>2. TypeStore /\ TypeCom
    BY DEF Init, TypeStore, TypeCom
  <2>3. TypeLife
    <3>1. run \in 0..MaxRuns
      BY BoundsAssumption DEF Init
    <3> QED
      BY <3>1 DEF Init, TypeLife, Phases
  <2>4. TypeCancel
    BY DEF Init, TypeCancel, Errors
  <2>5. TypeFeed
    BY RowsAreInts DEF Init, TypeFeed, Coord
  <2>6. TypePub
    BY DEF Init, TypePub
  <2>7. TypeSink
    BY NoSlotTaken DEF Init, TypeSink, Errors
  <2>8. TypeTrack
    <3>1. next \in 1..(MaxRow + 1) /\ 0 \in 0..MaxRow
      BY RowsAreInts DEF Init, T!TrackerInit
    <3>2. ckpt \in [SeqNo : 0..MaxRow, coord : Coord \cup {NoPos}]
      BY <3>1 DEF Init, T!TrackerInit, T!ZeroPosition
    <3> QED
      BY <3>1, <3>2, EmptyBatch DEF Init, T!TrackerInit, TypeTrack
  <2> QED
    BY <2>1, <2>2, <2>3, <2>4, <2>5, <2>6, <2>7, <2>8 DEF Types
<1>2. AllSettled
  <2>1. Boundary(logEnd)
    BY RowsAreInts DEF Init, Boundary
  <2> QED
    BY <2>1 DEF Init, AllSettled, Settled, SettledIn
<1>3. Sourced
  BY DEF Init, Sourced
<1>4. Pipe
  BY RangeEmpty DEF Init, Pipe
<1>5. Tracked
  BY EmptyBatch DEF Init, T!TrackerInit, Tracked
<1>6. Committing /\ Forward /\ NeverDrops /\ Draining /\ Flushed
  BY DEF Init, Committing, Forward, NeverDrops, Draining, Flushed
<1> QED
  BY <1>1, <1>2, <1>3, <1>4, <1>5, <1>6, InvParts

LEMMA RowsLeftType ==
    ASSUME Types, NEW q \in Queue
    PROVE  RowsLeft(q) \subseteq Row
<1>1. batch[q] \in Seq(Row) /\ queue[q] \in Seq(Row) /\ out \in Seq(Row)
  BY DEF Types, TypeFeed, TypePub
<1>2. Range(batch[q]) \subseteq Row /\ Range(queue[q]) \subseteq Row /\ Range(out) \subseteq Row
  BY <1>1, RangeOfSeq
<1> QED
  BY <1>2 DEF RowsLeft

\* A run starts from the saved coordinate with everything else new, while
\* batches and publishers of earlier runs may still be there.
LEMMA RunStartInv == ASSUME Inv, RunStart PROVE Inv'
<1>1. /\ run' = run + 1 /\ run < MaxRuns /\ phase' = "select" /\ status' = "running"
      /\ ctxDone' = FALSE /\ runErr' = FALSE
      /\ firstErr' = NoErr /\ srcCancelled' = FALSE /\ hardCancelled' = FALSE
      /\ src' = "connect" /\ start' = saved /\ seq' = 0 /\ out' = <<>>
      /\ disp' = "run" /\ queue' = [q \in Queue |-> <<>>]
      /\ pub' = [q \in Queue |-> "drain"] /\ batch' = [q \in Queue |-> <<>>]
      /\ open' = [q \in Queue |-> TRUE]
      /\ sinkErr' = NoErr /\ NewTracker /\ com' = "idle" /\ comPos' = NoPos
      /\ UNCHANGED <<envVars, storeVars, inflight>>
  BY DEF RunStart, Reset
<1>2. stray' = stray \cup {[run |-> run, rows |-> RowsLeft(q)] :
                             q \in {p \in Queue : pub[p] # "ended" /\ RowsLeft(p) # {}}}
  BY DEF RunStart
<1>3. TypeTrack' /\ Tracked' /\ ~has' /\ acked' = <<>>
  BY <1>1, NewTrackerInv DEF NewTracker
<1>4. run \in 0..MaxRuns /\ MaxRuns \in Nat /\ run' \in 1..MaxRuns /\ run' \in 0..MaxRuns
  BY <1>1, BoundsAssumption, InvParts DEF Types, TypeLife
<1>5. \A b \in stray' : b \in InflightBatches /\ b.run <= run
  <2>1. ASSUME NEW b \in stray PROVE b \in InflightBatches /\ b.run <= run
    BY <1>4, InvParts DEF Types, TypeSink, InflightBatches, Pipe
  <2>2. ASSUME NEW q \in Queue, pub[q] # "ended"
        PROVE  /\ [run |-> run, rows |-> RowsLeft(q)] \in InflightBatches
               /\ [run |-> run, rows |-> RowsLeft(q)].run <= run
    <3>1. run \in 1..MaxRuns
      BY <1>4, <2>2, InvParts DEF Sourced
    <3>2. RowsLeft(q) \subseteq Row
      BY InvParts, RowsLeftType
    <3> QED
      BY <3>1, <3>2 DEF InflightBatches
  <2> QED
    BY <1>2, <2>1, <2>2
<1>6. Types'
  <2>1. TypeEnv' /\ TypeStore'
    BY <1>1, InvParts, TypeFrame DEF Types
  <2>2. TypeLife'
    BY <1>1, <1>4 DEF TypeLife, Phases
  <2>6. TypeCancel' /\ TypeCom'
    BY <1>1 DEF TypeCancel, TypeCom, Errors
  <2>3. TypeFeed'
    BY <1>1, RowsAreInts, InvParts DEF Types, TypeStore, TypeFeed, Coord
  <2>4. TypePub'
    BY <1>1 DEF TypePub
  <2>5. TypeSink'
    BY <1>1, <1>5, InvParts DEF Types, TypeSink, Errors
  <2> QED
    BY <1>3, <2>1, <2>2, <2>3, <2>4, <2>5, <2>6 DEF Types
<1>7. AllSettled'
  BY <1>1, InvParts DEF AllSettled, Settled, SettledIn
<1>8. Sourced'
  <2>1. saved # NoPos => saved \in Nat /\ logEnd \in Nat /\ saved <= logEnd
    BY RowsAreInts, InvParts DEF AllSettled, Settled, SettledIn, Types, TypeEnv, Coord
  <2> QED
    BY <1>1, <1>4, <2>1 DEF Sourced
<1>9. EmittedRows' = {}
  BY <1>1, <1>6 DEF EmittedRows, Types, TypeFeed, Coord
<1>10. \A b \in inflight' : b.run <= run' /\ b.run # run'
  BY <1>1, <1>4, InvParts DEF Types, TypeSink, InflightBatches, Pipe
<1>11. Pipe'
  <2>1. \A b \in stray' : b.run < run'
    BY <1>1, <1>4, <1>5 DEF InflightBatches
  <2> QED
    BY <1>1, <1>10, <2>1, RangeEmpty DEF Pipe
<1>12. NeverDrops'
  <2>1. AckedRows' = {}
    BY <1>3, EmptyBatch DEF AckedRows
  <2>2. InPipe' = {}
    BY <1>1, <1>10, RangeEmpty DEF InPipe
  <2> QED
    BY <1>9, <2>1, <2>2 DEF NeverDrops
<1>13. Committing' /\ Draining' /\ Flushed'
  BY <1>1 DEF Committing, Draining, Flushed
<1>14. Forward'
  BY <1>1, <1>3, <1>6, RowsAreInts DEF Forward, Types, TypeFeed, Coord
<1> QED
  BY <1>3, <1>6, <1>7, <1>8, <1>11, <1>12, <1>13, <1>14, InvPartsPrime

\* Store.Load failed: only the sink's error is reset.
LEMMA RunLoadFailsInv == ASSUME Inv, RunLoadFails PROVE Inv'
<1>1. /\ phase = "idle" /\ status' = "failed" /\ sinkErr' = NoErr
      /\ UNCHANGED <<envVars, storeVars, run, phase, ctxDone, runErr, cancelVars,
                     feedVars, pubVars, inflight, stray, trackerVars, comVars>>
  BY DEF RunLoadFails, Reset
<1>2. Types'
  <2>1. TypeLife' /\ TypeSink'
    BY <1>1, InvParts DEF Types, TypeLife, TypeSink, Errors
  <2> QED
    BY <1>1, <2>1, InvParts, TypeFrame DEF Types
<1>3. NeverDrops' /\ Draining'
  BY <1>1 DEF NeverDrops, Draining
<1> QED
  BY <1>1, <1>2, <1>3, InvParts, InvPartsPrime, Frame

\* After a crash nothing is left but the log, the topic and the store.
LEMMA CrashInv == ASSUME Inv, Crash PROVE Inv'
<1>1. /\ phase # "idle" /\ phase' = "idle" /\ status' = "created" /\ ctxDone' = FALSE
      /\ runErr' = FALSE
      /\ firstErr' = NoErr /\ srcCancelled' = TRUE /\ hardCancelled' = TRUE
      /\ src' = "ended" /\ start' = NoPos /\ seq' = 0 /\ out' = <<>>
      /\ disp' = "ended" /\ queue' = [q \in Queue |-> <<>>]
      /\ pub' = [q \in Queue |-> "ended"] /\ batch' = [q \in Queue |-> <<>>]
      /\ open' = [q \in Queue |-> FALSE]
      /\ inflight' = {} /\ sinkErr' = NoErr /\ stray' = {} /\ NewTracker
      /\ com' = "ended" /\ comPos' = NoPos
      /\ UNCHANGED <<pick, logEnd, captured, captureFrom, run>>
  BY DEF Crash
<1>2. PICK D \in SUBSET UNION {b.rows : b \in inflight} : durable' = durable \cup D
  BY DEF Crash
<1>3. durable' \subseteq Row /\ durable \subseteq durable'
  BY <1>2, InvParts DEF Types, TypeSink, TypeEnv, InflightBatches
<1>4. /\ TypeStore'
      /\ SettledIn(saved', logEnd', captureFrom', durable')
      /\ SettledIn(late', logEnd', captureFrom', durable')
  <2>1. CASE UNCHANGED storeVars
    <3>1. logEnd \in Coord /\ logEnd <= logEnd
      BY RowsAreInts, InvParts DEF Types, TypeEnv, Coord
    <3>2. TypeStore'
      BY <2>1, InvParts, TypeFrame DEF Types
    <3> QED
      BY <1>1, <1>3, <2>1, <3>1, <3>2, InvParts, SettledMono DEF AllSettled, Settled
  <2>2. CASE com = "save" /\ SaveFails(comPos)
    <3>1. comPos \in Coord /\ Settled(comPos)
      BY <2>2, InvParts DEF Committing, AllSettled
    <3> QED
      BY <1>1, <1>3, <2>2, <3>1, InvParts, SaveSettled
  <2>3. CASE has /\ SaveFails(ckpt.coord)
    <3>1. ckpt.coord \in Coord /\ Settled(ckpt.coord)
      BY <2>3, InvParts, CkptSettled
    <3> QED
      BY <1>1, <1>3, <2>3, <3>1, InvParts, SaveSettled
  <2> QED
    BY <2>1, <2>2, <2>3 DEF Crash
<1>5. TypeTrack' /\ Tracked'
  BY <1>1, NewTrackerInv
<1>6. Types'
  <2>1. TypeEnv'
    BY <1>1, <1>3, InvParts DEF Types, TypeEnv
  <2>2. TypeLife' /\ TypeCancel' /\ TypeCom'
    BY <1>1, InvParts DEF Types, TypeLife, TypeCancel, TypeCom, Phases, Errors
  <2>3. TypeFeed'
    BY <1>1, RowsAreInts DEF TypeFeed, Coord
  <2>4. TypePub' /\ TypeSink'
    BY <1>1, NoSlotTaken DEF TypePub, TypeSink, Errors
  <2> QED
    BY <1>4, <1>5, <2>1, <2>2, <2>3, <2>4 DEF Types
<1>7. AllSettled'
  BY <1>1, <1>4, InvParts DEF AllSettled, Settled, SettledIn
<1>8. Sourced'
  BY <1>1 DEF Sourced
<1>9. Pipe'
  BY <1>1, RangeEmpty DEF Pipe
<1>10. Committing' /\ Forward' /\ NeverDrops' /\ Draining' /\ Flushed'
  BY <1>1 DEF Committing, Forward, NeverDrops, Draining, Flushed
<1> QED
  BY <1>5, <1>6, <1>7, <1>8, <1>9, <1>10, InvPartsPrime

----------------------------------------------------------------------------
(* Source and dispatcher *)

\* While a goroutine of the pipeline runs, run() has not come to flush its sink.
LEMMA NotFinished ==
    ASSUME Flushed, ~Finished, UNCHANGED <<phase, runErr>>, hardCancelled => hardCancelled'
    PROVE  Flushed'
  BY DEF Flushed

\* Where a row in the pipeline may be.
LEMMA InPipeIs ==
    \A x : x \in InPipe <=> \/ x \in Range(out)
                            \/ \E q \in Queue : x \in Range(queue[q])
                            \/ \E q \in Queue : x \in Range(batch[q])
                            \/ \E b \in inflight : b.run = run /\ x \in b.rows
<1> TAKE x
<1>1. x \in UNION {Range(queue[q]) \cup Range(batch[q]) : q \in Queue}
        <=> \E q \in Queue : x \in Range(queue[q]) \/ x \in Range(batch[q])
  OBVIOUS
<1>2. x \in UNION {b.rows : b \in {c \in inflight : c.run = run}}
        <=> \E b \in inflight : b.run = run /\ x \in b.rows
  OBVIOUS
<1> QED
  BY <1>1, <1>2 DEF InPipe

LEMMA InPipeIsPrime ==
    \A x : x \in InPipe' <=> \/ x \in Range(out')
                             \/ \E q \in Queue : x \in Range(queue'[q])
                             \/ \E q \in Queue : x \in Range(batch'[q])
                             \/ \E b \in inflight' : b.run = run' /\ x \in b.rows
<1> TAKE x
<1>1. x \in UNION {Range(queue'[q]) \cup Range(batch'[q]) : q \in Queue}
        <=> \E q \in Queue : x \in Range(queue'[q]) \/ x \in Range(batch'[q])
  OBVIOUS
<1>2. x \in UNION {b.rows : b \in {c \in inflight' : c.run = run'}}
        <=> \E b \in inflight' : b.run = run' /\ x \in b.rows
  OBVIOUS
<1> QED
  BY <1>1, <1>2 DEF InPipe

\* The source connects: without a saved coordinate capture begins at the end of
\* the log.
LEMMA SourceConnectInv == ASSUME Inv, SourceConnect PROVE Inv'
<1>1. /\ src = "connect" /\ src' = "stream"
      /\ UNCHANGED <<pick, logEnd, durable, captured, storeVars, lifeVars,
                     cancelVars, seq, out, dispVars, pubVars, ackVars>>
      /\ start' = IF start = NoPos THEN logEnd ELSE start
      /\ captureFrom' = IF start = NoPos THEN logEnd ELSE captureFrom
  BY DEF SourceConnect
<1>2. seq = 0 /\ logEnd \in Coord /\ start' # NoPos /\ start' \in Coord /\ run > 0
      /\ captureFrom' \in Coord
  BY <1>1, InvParts, RowsAreInts DEF Sourced, Types, TypeEnv, TypeFeed
<1>3. Types'
  <2>1. TypeEnv' /\ TypeFeed'
    BY <1>1, <1>2, InvParts DEF Types, TypeEnv, TypeFeed
  <2> QED
    BY <1>1, <2>1, InvParts, TypeFrame DEF Types
<1>4. DOMAIN acked = {} /\ ~has
  <2>1. next \in Nat /\ DOMAIN acked = {}
    BY <1>2, InvParts DEF Tracked, Types, TypeTrack
  <2>2. ~(next > 1)
    <3>1. next > 1 => 1 \in 1..(next - 1)
      BY <2>1
    <3> QED
      BY <2>1, <3>1, InvParts DEF Tracked
  <2> QED
    BY <2>1, <2>2, InvParts DEF Tracked
<1>5. AllSettled'
  <2>1. CASE start # NoPos
    BY <1>1, <2>1, InvParts DEF AllSettled, Settled
  <2>2. CASE start = NoPos
    <3>1. ASSUME NEW p, SettledIn(p, logEnd, captureFrom, durable)
          PROVE  SettledIn(p, logEnd, logEnd, durable)
      BY <1>2, <3>1 DEF SettledIn, Coord
    <3>2. SettledIn(logEnd, logEnd, logEnd, durable)
      BY <1>2, InvParts DEF SettledIn, AllSettled, Coord
    <3> QED
      BY <1>1, <2>2, <3>1, <3>2, InvParts DEF AllSettled, Settled
  <2> QED
    BY <2>1, <2>2
<1>6. Sourced'
  <2>1. start' + seq' <= logEnd'
    BY <1>1, <1>2, InvParts, RowsAreInts DEF Sourced, Coord
  <2> QED
    BY <1>1, <1>2, <2>1, InvParts DEF Sourced
<1>7. EmittedRows = {} /\ EmittedRows' = {}
  BY <1>1, <1>2, InvParts DEF EmittedRows, Types, TypeFeed, Coord
<1>8. Pipe'
  BY <1>1, <1>7, InvParts DEF Pipe
<1>9. Tracked'
  BY <1>1, <1>2, <1>4, InvParts DEF Tracked
<1>10. Forward'
  BY <1>1, <1>4, InvParts DEF Forward
<1>11. NeverDrops'
  <2>1. AckedRows = {} /\ AckedRows' = {} /\ InPipe' = InPipe
    BY <1>1, <1>4 DEF AckedRows, InPipe
  <2> QED
    BY <1>1, <1>7, <2>1, InvParts DEF NeverDrops
<1>12. Draining'
  BY <1>1, InvParts DEF Draining
<1>13. Flushed'
  BY <1>1, InvParts, NotFinished DEF Finished
<1> QED
  BY <1>1, <1>3, <1>5, <1>6, <1>8, <1>9, <1>10, <1>11, <1>12, <1>13, InvParts,
     InvPartsPrime, Frame

\* The source ends, of itself or with an error.
LEMMA SourceEndsInv == ASSUME Inv, SourceFails \/ SourceStops PROVE Inv'
<1>1. /\ src # "ended" /\ src' = "ended"
      /\ UNCHANGED <<envVars, storeVars, lifeVars, start, seq, out, dispVars,
                     pubVars, ackVars>>
  BY DEF SourceFails, SourceStops
<1>2. /\ TypeCancel' /\ (hardCancelled => hardCancelled')
      /\ firstErr' = firstErr \/ hardCancelled'
  <2>1. CASE SourceFails
    <3>1. Failure(run) \in Errors
      BY <1>1, InvParts DEF Sourced, Types, TypeLife, Errors
    <3> QED
      BY <2>1, <3>1, InvParts, FailCancels DEF SourceFails, Types
  <2>2. CASE SourceStops
    BY <2>2, InvParts, TypeFrame DEF SourceStops, Types
  <2> QED
    BY <2>1, <2>2
<1>3. Types'
  <2>1. TypeFeed'
    BY <1>1, InvParts DEF Types, TypeFeed
  <2> QED
    BY <1>1, <1>2, <2>1, InvParts, TypeFrame DEF Types
<1>4. Sourced'
  BY <1>1, InvParts DEF Sourced
<1>5. Draining'
  BY <1>1, <1>2, InvParts DEF Draining
<1>6. Flushed'
  BY <1>1, <1>2, InvParts, NotFinished DEF Finished
<1> QED
  BY <1>1, <1>2, <1>3, <1>4, <1>5, <1>6, InvParts, InvPartsPrime, Frame

\* The source emits the next row of the log.
LEMMA SourceEmitInv == ASSUME Inv, SourceEmit PROVE Inv'
<1> DEFINE r == start + seq + 1
<1>1. /\ src = "stream" /\ start + seq < logEnd
      /\ seq' = seq + 1 /\ out' = Append(out, r) /\ captured' = captured \cup {r}
      /\ UNCHANGED <<pick, logEnd, durable, captureFrom, storeVars, lifeVars,
                     cancelVars, src, start, dispVars, pubVars, ackVars>>
  BY DEF SourceEmit
<1>2. start # NoPos /\ start \in Nat /\ seq \in Nat /\ logEnd \in Nat /\ logEnd <= MaxRow
      /\ MaxRow \in Nat
  BY <1>1, InvParts, RowsAreInts DEF Sourced, Types, TypeEnv, TypeFeed, Coord
<1>3. r \in Row /\ seq' \in Coord /\ seq' \in Nat /\ start + seq' <= logEnd /\ seq <= seq'
  BY <1>1, <1>2 DEF Row, Coord
<1>4. out' \in Seq(Row) /\ Range(out') = Range(out) \cup {r}
  BY <1>1, <1>3, InvParts, RangeAppend DEF Types, TypeFeed
<1>5. EmittedRows' = EmittedRows \cup {r}
  <2>1. EmittedRows = (start + 1)..(start + seq)
    BY <1>2 DEF EmittedRows
  <2>2. EmittedRows' = (start + 1)..(start + seq + 1)
    BY <1>1, <1>2 DEF EmittedRows
  <2> QED
    BY <1>2, <2>1, <2>2
<1> HIDE DEF r
<1>6. Types'
  <2>1. TypeEnv' /\ TypeFeed'
    BY <1>1, <1>3, <1>4, InvParts DEF Types, TypeEnv, TypeFeed
  <2> QED
    BY <1>1, <2>1, InvParts, TypeFrame DEF Types
<1>7. Sourced'
  BY <1>1, <1>2, <1>3, InvParts DEF Sourced
<1>8. Pipe'
  BY <1>1, <1>4, <1>5, InvParts DEF Pipe
<1>9. Tracked'
  <2>1. 1..seq \subseteq 1..seq'
    BY <1>2, <1>3
  <2> QED
    BY <1>1, <2>1, InvParts DEF Tracked
<1>10. NeverDrops'
  <2>1. AckedRows' = AckedRows
    BY <1>1 DEF AckedRows
  <2>2. InPipe' = InPipe \cup {r}
    BY <1>1, <1>4, InPipeIs, InPipeIsPrime
  <2> QED
    BY <1>1, <1>5, <2>1, <2>2, InvParts DEF NeverDrops
<1>11. Draining'
  BY <1>1, InvParts DEF Draining
<1>12. Flushed'
  BY <1>1, InvParts, NotFinished DEF Finished
<1> QED
  BY <1>1, <1>6, <1>7, <1>8, <1>9, <1>10, <1>11, <1>12, InvParts, InvPartsPrime, Frame

\* The dispatcher moves a row from the channel to its queue.
LEMMA DispatchInv == ASSUME Inv, Dispatch PROVE Inv'
<1> DEFINE r == Head(out)
           q == pick[r]
<1>1. /\ disp = "run" /\ out # <<>> /\ out' = Tail(out)
      /\ queue' = [queue EXCEPT ![q] = Append(queue[q], r)]
      /\ UNCHANGED <<mainVars, sourceVars, disp, pubVars, ackVars>>
  BY DEF Dispatch
<1>2. /\ r \in Row /\ out' \in Seq(Row) /\ Range(out) = {r} \cup Range(out')
  BY <1>1, InvParts, RangeTail DEF Types, TypeFeed
<1>3. q \in Queue
  BY <1>2, InvParts, RowsAssumption DEF Types, TypeEnv
<1> HIDE DEF r, q
<1>4. /\ queue' \in [Queue -> Seq(Row)] /\ Range(queue'[q]) = Range(queue[q]) \cup {r}
      /\ \A p \in Queue : p # q => queue'[p] = queue[p]
  BY <1>1, <1>2, <1>3, InvParts, RangeAppend DEF Types, TypeFeed
<1>5. Types'
  <2>1. TypeFeed'
    BY <1>1, <1>2, <1>4, InvParts DEF Types, TypeFeed
  <2> QED
    BY <1>1, <2>1, InvParts, TypeFrame DEF Types
<1>6. EmittedRows' = EmittedRows
  BY <1>1 DEF EmittedRows
<1>7. Pipe'
  BY <1>1, <1>2, <1>3, <1>4, <1>6, InvParts DEF Pipe
<1>8. NeverDrops'
  <2>1. AckedRows' = AckedRows
    BY <1>1 DEF AckedRows
  <2>2. InPipe' = InPipe
    BY <1>1, <1>2, <1>3, <1>4, InPipeIs, InPipeIsPrime
  <2> QED
    BY <1>1, <1>6, <2>1, <2>2, InvParts DEF NeverDrops
<1>9. Draining'
  BY <1>1, InvParts DEF Draining
<1>10. Flushed'
  BY <1>1, InvParts, NotFinished DEF Finished
<1> QED
  BY <1>1, <1>5, <1>7, <1>8, <1>9, <1>10, InvParts, InvPartsPrime, Frame

\* The dispatcher ends: it is drained, or cancelled.
LEMMA DispatchEndsInv == ASSUME Inv, DispatchEnds PROVE Inv'
<1>1. /\ disp = "run" /\ disp' = "ended"
      /\ (src = "ended" /\ out = <<>>) \/ hardCancelled
      /\ UNCHANGED <<mainVars, sourceVars, out, queue, pubVars, ackVars>>
  BY DEF DispatchEnds
<1>2. Types'
  <2>1. TypeFeed'
    BY <1>1, InvParts DEF Types, TypeFeed
  <2> QED
    BY <1>1, <2>1, InvParts, TypeFrame DEF Types
<1>3. Draining'
  BY <1>1, InvParts DEF Draining
<1>4. Flushed'
  BY <1>1, InvParts, NotFinished DEF Finished
<1> QED
  BY <1>1, <1>2, <1>3, <1>4, InvParts, InvPartsPrime, Frame

----------------------------------------------------------------------------
(* Publishers *)

\* drainBatch takes a row from the queue.
LEMMA PubTakeInv == ASSUME Inv, NEW q \in Queue, PubTake(q) PROVE Inv'
<1> DEFINE r == Head(queue[q])
<1>1. /\ pub[q] = "drain" /\ queue[q] # <<>>
      /\ batch' = [batch EXCEPT ![q] = Append(batch[q], r)]
      /\ queue' = [queue EXCEPT ![q] = Tail(queue[q])]
      /\ UNCHANGED <<mainVars, sourceVars, out, disp, pub, open, ackVars>>
  BY DEF PubTake
<1>2. /\ queue \in [Queue -> Seq(Row)] /\ batch \in [Queue -> Seq(Row)]
  BY InvParts DEF Types, TypeFeed, TypePub
<1>3. /\ r \in Row /\ Tail(queue[q]) \in Seq(Row)
      /\ Range(queue[q]) = {r} \cup Range(Tail(queue[q]))
  BY <1>1, <1>2, RangeTail
<1> HIDE DEF r
<1>4. /\ queue' \in [Queue -> Seq(Row)] /\ Range(queue[q]) = Range(queue'[q]) \cup {r}
      /\ \A p \in Queue : p # q => queue'[p] = queue[p]
  BY <1>1, <1>2, <1>3
<1>5. /\ batch' \in [Queue -> Seq(Row)] /\ Range(batch'[q]) = Range(batch[q]) \cup {r}
      /\ \A p \in Queue : p # q => batch'[p] = batch[p]
  BY <1>1, <1>2, <1>3, RangeAppend
<1>6. Types'
  <2>1. TypeFeed' /\ TypePub'
    BY <1>1, <1>4, <1>5, InvParts DEF Types, TypeFeed, TypePub
  <2> QED
    BY <1>1, <2>1, InvParts, TypeFrame DEF Types
<1>7. EmittedRows' = EmittedRows
  BY <1>1 DEF EmittedRows
<1>8. Pipe'
  BY <1>1, <1>4, <1>5, <1>7, InvParts DEF Pipe
<1>9. NeverDrops'
  <2>1. AckedRows' = AckedRows
    BY <1>1 DEF AckedRows
  <2>2. InPipe' = InPipe
    BY <1>1, <1>4, <1>5, InPipeIs, InPipeIsPrime
  <2> QED
    BY <1>1, <1>7, <2>1, <2>2, InvParts DEF NeverDrops
<1>10. Draining'
  BY <1>1, <1>4, <1>5, InvParts DEF Draining
<1>11. Flushed'
  BY <1>1, InvParts, NotFinished DEF Finished
<1> QED
  BY <1>1, <1>6, <1>8, <1>9, <1>10, <1>11, InvParts, InvPartsPrime, Frame

\* A publisher moves on, or ends, with its batch.
LEMMA PubStepInv ==
    ASSUME Inv, NEW q \in Queue,
           \/ PubBatch(q) \/ PubClosed(q) \/ PubCheck(q) \/ PubFails(q) \/ PubCancelled(q)
    PROVE  Inv'
<1>1. /\ pub[q] # "ended"
      /\ UNCHANGED <<envVars, storeVars, lifeVars, feedVars, batch, ackVars>>
  BY DEF PubBatch, PubClosed, PubCheck, PubFails, PubCancelled
<1>2. PICK to \in {"publish", "token", "ended"} : pub' = [pub EXCEPT ![q] = to]
  BY DEF PubBatch, PubClosed, PubCheck, PubFails, PubCancelled
<1>3. open' \in {open, [open EXCEPT ![q] = FALSE]}
  BY DEF PubBatch, PubClosed, PubCheck, PubFails, PubCancelled
<1>4. /\ pub \in [Queue -> {"drain", "publish", "token", "ended"}]
      /\ open \in [Queue -> BOOLEAN] /\ run > 0
  BY <1>1, InvParts DEF Types, TypePub, Sourced
<1>5. /\ pub'[q] = to /\ \A p \in Queue : p # q => pub'[p] = pub[p] /\ open'[p] = open[p]
  BY <1>2, <1>3, <1>4
<1>6. /\ TypeCancel' /\ (hardCancelled => hardCancelled')
      /\ firstErr' = firstErr \/ hardCancelled'
  <2>1. CASE PubFails(q)
    <3>1. NoErr \in Errors /\ Failure(run) \in Errors /\ sinkErr \in Errors
      BY <1>4, InvParts DEF Types, TypeLife, TypeSink, Errors
    <3>2. \E e \in Errors : fail(e)
      BY <2>1, <3>1 DEF PubFails
    <3> QED
      BY <3>2, InvParts, FailCancels DEF Types
  <2>2. CASE ~PubFails(q)
    <3>1. UNCHANGED cancelVars
      BY <2>2 DEF PubBatch, PubClosed, PubCheck, PubCancelled
    <3> QED
      BY <3>1, InvParts, TypeFrame DEF Types
  <2> QED
    BY <2>1, <2>2
<1>7. Types'
  <2>1. TypePub'
    BY <1>1, <1>2, <1>3, <1>4, InvParts DEF Types, TypePub
  <2> QED
    BY <1>1, <1>6, <2>1, InvParts, TypeFrame DEF Types
<1>8. Sourced'
  BY <1>1, <1>4, InvParts DEF Sourced
<1>9. Draining'
  <2>1. CASE phase = "idle" \/ hardCancelled'
    BY <1>1, <2>1 DEF Draining
  <2>2. CASE phase # "idle" /\ ~hardCancelled'
    <3>1. ~hardCancelled /\ firstErr' = firstErr /\ firstErr = NoErr
      BY <1>6, <2>2, InvParts DEF Draining
    <3>2. to = "ended" /\ sinkErr = NoErr => ~open'[q] /\ batch[q] = <<>>
      <4>1. CASE PubBatch(q) \/ PubCheck(q)
        BY <1>5, <1>4, <4>1 DEF PubBatch, PubCheck
      <4>2. CASE PubClosed(q)
        BY <1>5, <1>4, <4>2 DEF PubClosed
      <4>3. CASE PubFails(q) /\ sinkErr = NoErr
        <5>1. fail(Failure(run))
          BY <3>1, <4>3 DEF PubFails
        <5>2. Failure(run) # NoErr /\ Failure(run).kind # "canceled"
          BY DEF Failure, NoErr
        <5> QED
          BY <2>2, <3>1, <5>1, <5>2 DEF fail
      <4>4. CASE PubCancelled(q)
        BY <3>1, <4>4 DEF PubCancelled
      <4> QED
        BY <4>1, <4>2, <4>3, <4>4
    <3>3. ~open'[q] => disp = "ended" /\ queue[q] = <<>>
      <4>1. CASE open' = open
        BY <2>2, <3>1, <4>1, InvParts DEF Draining
      <4>2. CASE open' # open
        BY <3>1, <4>2 DEF PubBatch, PubClosed, PubCheck, PubFails, PubCancelled
      <4> QED
        BY <4>1, <4>2
    <3> QED
      BY <1>1, <1>5, <2>2, <3>1, <3>2, <3>3, InvParts DEF Draining
  <2> QED
    BY <2>1, <2>2
<1>10. Flushed'
  BY <1>1, <1>6, InvParts, NotFinished DEF Finished
<1> QED
  BY <1>1, <1>6, <1>7, <1>8, <1>9, <1>10, InvParts, InvPartsPrime, Frame

\* PublishBatch hands the batch to the producer.
LEMMA PubSubmitInv == ASSUME Inv, NEW q \in Queue, PubSubmit(q) PROVE Inv'
<1> DEFINE b == [run |-> run, rows |-> Range(batch[q])]
           to == IF open[q] THEN "drain" ELSE "ended"
<1>1. /\ pub[q] = "token" /\ inflight' = inflight \cup {b}
      /\ Cardinality(inflight) < MaxInflight
      /\ batch' = [batch EXCEPT ![q] = <<>>] /\ pub' = [pub EXCEPT ![q] = to]
      /\ UNCHANGED <<mainVars, feedVars, open, sinkErr, stray, trackerVars, comVars>>
  BY DEF PubSubmit
<1>2. /\ batch \in [Queue -> Seq(Row)] /\ run > 0 /\ run \in 0..MaxRuns
      /\ pub \in [Queue -> {"drain", "publish", "token", "ended"}]
  BY <1>1, InvParts DEF Types, TypePub, TypeLife, Sourced
<1>3. Range(batch[q]) \subseteq Row
  BY <1>2, RangeOfSeq
<1>4. b \in InflightBatches /\ b.run = run /\ b.rows = Range(batch[q])
  BY <1>2, <1>3 DEF InflightBatches
<1>5. /\ batch' \in [Queue -> Seq(Row)] /\ Range(batch'[q]) = {} /\ batch'[q] = <<>>
      /\ \A p \in Queue : p # q => batch'[p] = batch[p]
  BY <1>1, <1>2, RangeEmpty
<1>6. /\ pub' \in [Queue -> {"drain", "publish", "token", "ended"}]
      /\ pub'[q] = "ended" => ~open[q]
      /\ \A p \in Queue : p # q => pub'[p] = pub[p]
  BY <1>1, <1>2
<1> HIDE DEF b, to
<1>7. Types'
  <2>1. TypePub' /\ TypeSink'
    BY <1>1, <1>4, <1>5, <1>6, InvParts, SlotTaken DEF Types, TypePub, TypeSink
  <2> QED
    BY <1>1, <2>1, InvParts, TypeFrame DEF Types
<1>8. EmittedRows' = EmittedRows
  BY <1>1 DEF EmittedRows
<1>9. Pipe'
  BY <1>1, <1>2, <1>4, <1>5, <1>8, InvParts DEF Pipe
<1>10. NeverDrops'
  <2>1. AckedRows' = AckedRows
    BY <1>1 DEF AckedRows
  <2>2. InPipe' = InPipe
    <3>1. \A x : (\E a \in inflight' : a.run = run' /\ x \in a.rows)
                   <=> \/ \E a \in inflight : a.run = run /\ x \in a.rows
                       \/ x \in Range(batch[q])
      BY <1>1, <1>4
    <3>2. \A x : (\E p \in Queue : x \in Range(batch[p]))
                   <=> \/ \E p \in Queue : x \in Range(batch'[p])
                       \/ x \in Range(batch[q])
      BY <1>5
    <3>3. \A x : x \in InPipe' <=> x \in InPipe
      BY <1>1, <3>1, <3>2, InPipeIs, InPipeIsPrime
    <3> QED
      BY <3>3
  <2> QED
    BY <1>1, <1>8, <2>1, <2>2, InvParts DEF NeverDrops
<1>11. Draining'
  BY <1>1, <1>5, <1>6, InvParts DEF Draining
<1>12. Sourced'
  BY <1>1, <1>2, InvParts DEF Sourced
<1>13. Flushed'
  BY <1>1, InvParts, NotFinished DEF Finished
<1> QED
  BY <1>1, <1>7, <1>9, <1>10, <1>11, <1>12, <1>13, InvParts, InvPartsPrime, Frame

----------------------------------------------------------------------------
(* The sink *)

\* A publisher of an earlier run comes unstuck.
LEMMA StraySubmitInv == ASSUME Inv, NEW b \in stray, StraySubmit(b) PROVE Inv'
<1>1. /\ stray' = stray \ {b} /\ inflight' \in {inflight, inflight \cup {b}}
      /\ inflight' = inflight \/ Cardinality(inflight) < MaxInflight
      /\ UNCHANGED <<mainVars, feedVars, pubVars, sinkErr, trackerVars, comVars>>
  BY DEF StraySubmit
<1>2. b \in InflightBatches /\ b.run < run /\ b.run \in Int /\ run \in Int
  BY InvParts DEF Pipe, Types, TypeSink, TypeLife, InflightBatches
<1>3. Types'
  <2>1. TypeSink'
    BY <1>1, <1>2, InvParts, SlotTaken DEF Types, TypeSink
  <2> QED
    BY <1>1, <2>1, InvParts, TypeFrame DEF Types
<1>4. EmittedRows' = EmittedRows /\ AckedRows' = AckedRows
  BY <1>1 DEF EmittedRows, AckedRows
<1>5. Pipe'
  BY <1>1, <1>2, <1>4, InvParts DEF Pipe
<1>6. NeverDrops'
  <2>1. \A x : (\E a \in inflight' : a.run = run' /\ x \in a.rows)
                 <=> \E a \in inflight : a.run = run /\ x \in a.rows
    BY <1>1, <1>2
  <2>2. \A x : x \in InPipe' <=> x \in InPipe
    BY <1>1, <2>1, InPipeIs, InPipeIsPrime
  <2>3. InPipe' = InPipe
    BY <2>2
  <2> QED
    BY <1>1, <1>4, <2>3, InvParts DEF NeverDrops
<1> QED
  BY <1>1, <1>3, <1>5, <1>6, InvParts, InvPartsPrime, Frame

\* Settled coordinates stay settled when rows become durable.
LEMMA DurableGrows ==
    ASSUME Types, AllSettled, durable \subseteq durable',
           UNCHANGED <<logEnd, captureFrom, start, saved, late, comPos>>
    PROVE  AllSettled'
<1>1. logEnd \in Coord /\ logEnd <= logEnd
  BY RowsAreInts DEF Types, TypeEnv, Coord
<1> QED
  BY <1>1, SettledMono DEF AllSettled, Settled

\* A batch failed: the sticky error is set and its rows are not acknowledged.
LEMMA NackInv == ASSUME Inv, NEW b \in inflight, Nack(b) PROVE Inv'
<1>1. /\ inflight' = inflight \ {b}
      /\ UNCHANGED <<pick, logEnd, captured, captureFrom, storeVars, lifeVars,
                     cancelVars, feedVars, pubVars, stray, trackerVars, comVars>>
  BY DEF Nack
<1>2. b \in InflightBatches
  BY InvParts DEF Types, TypeSink
<1>3. durable' \subseteq Row /\ durable \subseteq durable'
  BY <1>2, InvParts DEF Nack, Types, TypeEnv, InflightBatches
<1>4. sinkErr' \in Errors /\ sinkErr' # NoErr
  <2>1. PICK e \in {Failure(b.run), Canceled(b.run)} : setErr(e)
    BY DEF Nack
  <2>2. e \in Errors /\ e # NoErr
    BY <1>2 DEF Errors, InflightBatches, Failure, Canceled, NoErr
  <2> QED
    BY <2>1, <2>2, InvParts DEF setErr, Types, TypeSink
<1>5. Types'
  <2>1. TypeEnv' /\ TypeSink'
    BY <1>1, <1>3, <1>4, InvParts, SlotFreed DEF Types, TypeEnv, TypeSink
  <2> QED
    BY <1>1, <2>1, InvParts, TypeFrame DEF Types
<1>6. AllSettled'
  BY <1>1, <1>3, InvParts, DurableGrows
<1>7. Pipe'
  BY <1>1, InvParts DEF Pipe, EmittedRows
<1>8. NeverDrops' /\ Draining'
  BY <1>1, <1>4, InvParts DEF NeverDrops, Draining
<1> QED
  BY <1>1, <1>3, <1>5, <1>6, <1>7, <1>8, InvParts, InvPartsPrime, Frame

\* done reports a batch of the run: the tracker keeps its meaning, and its
\* checkpoint never moves back.
LEMMA DoneBatchTracked ==
    ASSUME Types, Tracked, NEW ps \in T!Batches, DOMAIN ps \subseteq 1..seq,
           \A s \in DOMAIN ps : ps[s] = Base[s + start] /\ s + start \in durable',
           durable \subseteq durable', UNCHANGED <<start, seq>>,
           T!DoneBatch(ps), acked' = T!Put(acked, ps)
    PROVE  /\ TypeTrack' /\ Tracked' /\ next <= next' /\ (has => has')
           /\ DOMAIN acked' = DOMAIN acked \cup DOMAIN ps
<1> DEFINE p == T!Put(pending, ps)
<1>1. PICK n \in next..(MaxRow + 1) :
        /\ next..(n - 1) \subseteq DOMAIN p /\ n \notin DOMAIN p /\ next' = n
        /\ pending' = Restrict(p, DOMAIN p \ (next..(n - 1)))
        /\ IF n = next
           THEN UNCHANGED <<ckpt, has, dirty>>
           ELSE /\ ckpt' = [SeqNo |-> n - 1, coord |-> p[n - 1]]
                /\ has' = TRUE /\ dirty' = TRUE
  BY DEF T!DoneBatch, T!advance, T!Restrict, Restrict
<1>2. /\ next \in Nat /\ next >= 1 /\ n \in Nat /\ next <= n /\ n <= MaxRow + 1
      /\ MaxRow \in Nat /\ seq \in Nat /\ pending \in T!Batches /\ acked \in T!Batches
      /\ has \in BOOLEAN
  BY <1>1, RowsAreInts DEF Types, TypeTrack, TypeFeed, Coord
<1>3. \A f \in T!Batches : DOMAIN f \subseteq 1..MaxRow /\ \A s \in DOMAIN f : f[s] \in Coord
  BY DEF T!Batches, T!SeqNo
<1>4. /\ DOMAIN p = DOMAIN pending \cup DOMAIN ps
      /\ DOMAIN acked' = DOMAIN acked \cup DOMAIN ps
      /\ \A s \in DOMAIN p : p[s] = IF s \in DOMAIN ps THEN ps[s] ELSE pending[s]
      /\ \A s \in DOMAIN acked' : acked'[s] = IF s \in DOMAIN ps THEN ps[s] ELSE acked[s]
  BY DEF T!Put
<1>5. p \in T!Batches /\ acked' \in T!Batches
  <2>1. ASSUME NEW f \in T!Batches
        PROVE  T!Put(f, ps) \in T!Batches
    <3>1. T!Put(f, ps) \in [DOMAIN f \cup DOMAIN ps -> Coord]
      BY <1>3 DEF T!Put
    <3>2. DOMAIN f \cup DOMAIN ps \in SUBSET T!SeqNo
      BY <1>3 DEF T!SeqNo
    <3> QED
      BY <3>1, <3>2 DEF T!Batches
  <2> QED
    BY <1>2, <2>1
<1>6. /\ DOMAIN pending' = DOMAIN p \ (next..(n - 1))
      /\ \A s \in DOMAIN pending' : pending'[s] = p[s]
  BY <1>1 DEF Restrict
<1> HIDE DEF p
<1>7. \A s \in DOMAIN p : s \in DOMAIN acked' /\ p[s] = acked'[s]
  BY <1>4 DEF Tracked
<1>8. TypeTrack'
  <2>1. pending' \in T!Batches
    <3>1. pending' \in [DOMAIN p \ (next..(n - 1)) -> Coord]
      BY <1>1, <1>3, <1>5 DEF Restrict
    <3>2. DOMAIN p \ (next..(n - 1)) \in SUBSET T!SeqNo
      BY <1>3, <1>5 DEF T!SeqNo
    <3> QED
      BY <3>1, <3>2 DEF T!Batches
  <2>2. next' \in 1..(MaxRow + 1)
    BY <1>1, <1>2
  <2>3. /\ ckpt' \in [SeqNo : 0..MaxRow, coord : Coord \cup {NoPos}]
        /\ has' \in BOOLEAN /\ dirty' \in BOOLEAN
    <3>1. CASE n = next
      BY <1>1, <3>1 DEF Types, TypeTrack
    <3>2. CASE n # next
      <4>1. n - 1 \in next..(n - 1) /\ n - 1 \in 0..MaxRow
        BY <1>2, <3>2
      <4>2. p[n - 1] \in Coord
        BY <1>1, <1>3, <1>5, <4>1
      <4> QED
        BY <1>1, <3>2, <4>1, <4>2
    <3> QED
      BY <3>1, <3>2
  <2> QED
    BY <1>5, <2>1, <2>2, <2>3 DEF TypeTrack
<1>9. /\ DOMAIN acked' \subseteq 1..seq'
      /\ \A s \in DOMAIN acked' : acked'[s] = Base[s + start'] /\ s + start' \in durable'
  BY <1>4 DEF Tracked
<1>10. /\ DOMAIN pending' \subseteq DOMAIN acked'
       /\ \A s \in DOMAIN pending' : pending'[s] = acked'[s]
       /\ next' \notin DOMAIN pending'
  BY <1>1, <1>6, <1>7
<1>11. 1..(next' - 1) \subseteq DOMAIN acked'
  <2> SUFFICES ASSUME NEW s \in 1..(n - 1) PROVE s \in DOMAIN acked'
    BY <1>1
  <2>1. s \in 1..(next - 1) \/ s \in next..(n - 1)
    BY <1>2
  <2> QED
    BY <1>1, <1>4, <1>7, <2>1 DEF Tracked
<1>12. DOMAIN acked' \subseteq 1..(next' - 1) \cup DOMAIN pending'
  <2> SUFFICES ASSUME NEW s \in DOMAIN acked' PROVE s \in 1..(n - 1) \/ s \in DOMAIN pending'
    BY <1>1
  <2>1. s \in 1..(next - 1) \/ s \in DOMAIN p
    BY <1>4 DEF Tracked
  <2>2. s \in 1..(next - 1) \/ s \in next..(n - 1) => s \in 1..(n - 1)
    BY <1>2
  <2> QED
    BY <1>6, <2>1, <2>2
<1>13. /\ (has' <=> next' > 1) /\ (dirty' => has')
       /\ has' => ckpt' = [SeqNo |-> next' - 1, coord |-> acked'[next' - 1]]
  <2>1. CASE n = next
    <3>1. has => next - 1 \in 1..(next - 1)
      BY <1>2 DEF Tracked
    <3>2. has => acked'[next - 1] = acked[next - 1]
      BY <1>4, <3>1 DEF Tracked
    <3> QED
      BY <1>1, <2>1, <3>2 DEF Tracked
  <2>2. CASE n # next
    <3>1. n - 1 \in next..(n - 1) /\ n > 1
      BY <1>2, <2>2
    <3> QED
      BY <1>1, <1>7, <2>2, <3>1
  <2> QED
    BY <2>1, <2>2
<1>14. Tracked'
  BY <1>9, <1>10, <1>11, <1>12, <1>13 DEF Tracked
<1>15. has => has'
  BY <1>1
<1> QED
  BY <1>1, <1>2, <1>4, <1>8, <1>14, <1>15

\* The positions of a batch of the run are those of its rows.
LEMMA PositionsOfRows ==
    ASSUME Types, Sourced, NEW R, R \subseteq EmittedRows, R # {}
    PROVE  /\ start \in Coord /\ PositionsOf(R) \in T!Batches
           /\ DOMAIN PositionsOf(R) \subseteq 1..seq
           /\ \A s \in DOMAIN PositionsOf(R) :
                PositionsOf(R)[s] = Base[s + start] /\ s + start \in R
           /\ {s + start : s \in DOMAIN PositionsOf(R)} = R
<1>1. start # NoPos /\ EmittedRows = (start + 1)..(start + seq)
  BY DEF EmittedRows
<1>2. /\ start \in Coord /\ start \in Nat /\ seq \in Nat /\ start + seq <= MaxRow
      /\ MaxRow \in Nat
  BY <1>1, RowsAreInts DEF Types, TypeFeed, TypeEnv, Sourced, Coord
<1> DEFINE D == {r - start : r \in R}
<1>3. \A r \in R : r - start \in 1..seq /\ r - start + start = r /\ r \in Row
  BY <1>1, <1>2 DEF Row
<1>4. D \subseteq 1..seq /\ \A s \in D : s + start \in R
  BY <1>3
<1>5. DOMAIN PositionsOf(R) = D /\ \A s \in D : PositionsOf(R)[s] = Base[s + start]
  BY DEF PositionsOf
<1>6. {s + start : s \in D} = R
  BY <1>3, <1>4
<1>7. PositionsOf(R) \in T!Batches
  <2>1. D \in SUBSET T!SeqNo
    BY <1>2, <1>4 DEF T!SeqNo
  <2>2. \A s \in D : Base[s + start] \in Coord
    BY <1>3, <1>4, RowsAreInts
  <2>3. PositionsOf(R) \in [D -> Coord]
    BY <2>2 DEF PositionsOf
  <2> QED
    BY <2>1, <2>3 DEF T!Batches
<1> QED
  BY <1>2, <1>4, <1>5, <1>6, <1>7

\* A batch of an earlier run is acknowledged: only the topic changes.
LEMMA StaleAckInv == ASSUME Inv, NEW b \in inflight, Ack(b), b.run # run PROVE Inv'
<1>1. /\ inflight' = inflight \ {b} /\ durable' = durable \cup b.rows
      /\ UNCHANGED <<pick, logEnd, captured, captureFrom, storeVars, lifeVars,
                     cancelVars, feedVars, pubVars, sinkErr, stray, trackerVars, comVars>>
  BY DEF Ack
<1>2. b \in InflightBatches /\ durable' \subseteq Row /\ durable \subseteq durable'
  BY <1>1, InvParts DEF Types, TypeSink, TypeEnv, InflightBatches
<1>3. Types'
  <2>1. TypeEnv' /\ TypeSink'
    BY <1>1, <1>2, InvParts, SlotFreed DEF Types, TypeEnv, TypeSink
  <2> QED
    BY <1>1, <2>1, InvParts, TypeFrame DEF Types
<1>4. AllSettled'
  BY <1>1, <1>2, InvParts, DurableGrows
<1>5. Pipe'
  BY <1>1, InvParts DEF Pipe, EmittedRows
<1>6. NeverDrops'
  <2>1. \A x : (\E a \in inflight' : a.run = run' /\ x \in a.rows)
                 <=> \E a \in inflight : a.run = run /\ x \in a.rows
    BY <1>1
  <2>2. \A x : x \in InPipe' <=> x \in InPipe
    BY <1>1, <2>1, InPipeIs, InPipeIsPrime
  <2>3. InPipe' = InPipe /\ EmittedRows' = EmittedRows /\ AckedRows' = AckedRows
    BY <1>1, <2>2 DEF EmittedRows, AckedRows
  <2> QED
    BY <1>1, <2>3, InvParts DEF NeverDrops
<1> QED
  BY <1>1, <1>2, <1>3, <1>4, <1>5, <1>6, InvParts, InvPartsPrime, Frame

LEMMA CkptSettledPrime ==
    Types' /\ AllSettled' /\ Sourced' /\ Tracked' /\ has'
      => (ckpt.coord \in Coord /\ start <= ckpt.coord)'
<1>1. Types /\ AllSettled /\ Sourced /\ Tracked /\ has
        => ckpt.coord \in Coord /\ start <= ckpt.coord
  BY CkptSettled
<1> QED
  BY <1>1, PTL

\* A batch of the run is acknowledged.
LEMMA AckInv == ASSUME Inv, NEW b \in inflight, Ack(b), b.run = run PROVE Inv'
<1> DEFINE ps == PositionsOf(b.rows)
<1>1. /\ inflight' = inflight \ {b} /\ durable' = durable \cup b.rows
      /\ T!DoneBatch(ps) /\ acked' = T!Put(acked, ps)
      /\ UNCHANGED <<pick, logEnd, captured, captureFrom, storeVars, lifeVars,
                     cancelVars, feedVars, pubVars, sinkErr, stray, comVars>>
  BY DEF Ack
<1>2. b \in InflightBatches /\ durable' \subseteq Row /\ durable \subseteq durable'
  BY <1>1, InvParts DEF Types, TypeSink, TypeEnv, InflightBatches
<1>3. b.rows \subseteq EmittedRows /\ b.rows # {}
  <2>1. DOMAIN ps # {} /\ DOMAIN ps = {r - start : r \in b.rows}
    BY <1>1 DEF T!DoneBatch, PositionsOf
  <2> QED
    BY <2>1, InvParts DEF Pipe
<1>4. /\ start \in Coord /\ ps \in T!Batches /\ DOMAIN ps \subseteq 1..seq
      /\ \A s \in DOMAIN ps : ps[s] = Base[s + start] /\ s + start \in b.rows
      /\ {s + start : s \in DOMAIN ps} = b.rows
  BY <1>3, InvParts, PositionsOfRows
<1> HIDE DEF ps
<1>5. /\ TypeTrack' /\ Tracked' /\ next <= next' /\ (has => has')
      /\ DOMAIN acked' = DOMAIN acked \cup DOMAIN ps
  BY <1>1, <1>2, <1>4, InvParts, DoneBatchTracked
<1>6. Types'
  <2>1. TypeEnv' /\ TypeSink'
    BY <1>1, <1>2, InvParts, SlotFreed DEF Types, TypeEnv, TypeSink
  <2> QED
    BY <1>1, <1>5, <2>1, InvParts, TypeFrame DEF Types
<1>7. AllSettled' /\ Sourced'
  BY <1>1, <1>2, InvParts, DurableGrows, Frame
<1>8. has' => ckpt'.coord \in Coord /\ start <= ckpt'.coord
  BY <1>1, <1>5, <1>6, <1>7, CkptSettledPrime
<1>9. has => has' /\ ckpt.coord \in Coord /\ ckpt.coord <= ckpt'.coord
  <2> SUFFICES ASSUME has PROVE ckpt.coord \in Coord /\ ckpt.coord <= ckpt'.coord
    BY <1>5
  <2>1. has' /\ next \in Nat /\ next' \in Nat /\ next > 1 /\ next' > 1 /\ start \in Nat
    BY <1>4, <1>5, <1>6, InvParts DEF Types, TypeTrack, Tracked, Coord
  <2>2. next - 1 \in 1..(next - 1) /\ next' - 1 \in 1..(next' - 1)
    <3>1. \A k \in Nat : k > 1 => k - 1 \in 1..(k - 1)
      OBVIOUS
    <3> QED
      BY <2>1, <3>1
  <2>3. next - 1 \in DOMAIN acked /\ next' - 1 \in DOMAIN acked'
    BY <1>5, <2>2, InvParts DEF Tracked
  <2>4. ckpt.coord = Base[next - 1 + start] /\ ckpt'.coord = Base[next' - 1 + start]
    BY <1>1, <1>5, <2>1, <2>3, InvParts DEF Tracked
  <2>5. /\ next - 1 + start \in Row /\ next' - 1 + start \in Row
        /\ next - 1 + start <= next' - 1 + start
    <3>1. durable \subseteq Row /\ durable' \subseteq Row
      BY <1>2, InvParts DEF Types, TypeEnv
    <3>2. next - 1 + start \in durable /\ next' - 1 + start \in durable'
      BY <1>1, <1>5, <2>3, InvParts DEF Tracked
    <3>3. \A k, m, t \in Nat : k <= m => k - 1 + t <= m - 1 + t
      OBVIOUS
    <3> QED
      BY <1>5, <2>1, <3>1, <3>2, <3>3
  <2> QED
    BY <2>4, <2>5, RowsAssumption
<1>10. EmittedRows' = EmittedRows /\ AckedRows' = AckedRows \cup b.rows
  <2>1. AckedRows' = {s + start : s \in DOMAIN acked \cup DOMAIN ps}
    BY <1>1, <1>5 DEF AckedRows
  <2>2. AckedRows' = AckedRows \cup {s + start : s \in DOMAIN ps}
    BY <2>1 DEF AckedRows
  <2> QED
    BY <1>1, <1>4, <2>2 DEF EmittedRows
<1>11. Pipe'
  BY <1>1, <1>10, InvParts DEF Pipe
<1>12. Committing'
  <2>1. com = "save" => comPos <= ckpt'.coord
    BY <1>8, <1>9, InvParts, RowsAreInts DEF Committing, Coord
  <2> QED
    BY <1>1, <1>9, <2>1, InvParts DEF Committing
<1>13. Forward'
  <2> SUFFICES ASSUME phase # "idle", late = NoPos, saved # NoPos
               PROVE  saved <= IF com = "save" THEN comPos
                               ELSE IF has' THEN ckpt'.coord ELSE start
    BY <1>1, <1>4, RowsAreInts DEF Forward
  <2>1. saved \in Int /\ start \in Int
    BY <1>4, InvParts, RowsAreInts DEF Types, TypeStore, Coord
  <2>2. saved <= IF com = "save" THEN comPos ELSE IF has THEN ckpt.coord ELSE start
    BY InvParts DEF Forward
  <2>3. CASE com = "save"
    BY <2>2, <2>3
  <2>4. CASE com # "save" /\ has
    BY <1>8, <1>9, <2>1, <2>2, <2>4 DEF Coord
  <2>5. CASE com # "save" /\ ~has /\ has'
    BY <1>8, <2>1, <2>2, <2>5 DEF Coord
  <2>6. CASE com # "save" /\ ~has /\ ~has'
    BY <2>2, <2>6
  <2> QED
    BY <2>3, <2>4, <2>5, <2>6
<1>14. NeverDrops'
  <2>1. \A x : (\E a \in inflight : a.run = run /\ x \in a.rows)
                 <=> (\E a \in inflight' : a.run = run' /\ x \in a.rows) \/ x \in b.rows
    BY <1>1
  <2>2. \A x : x \in InPipe <=> x \in InPipe' \/ x \in b.rows
    BY <1>1, <2>1, InPipeIs, InPipeIsPrime
  <2>3. InPipe \cup AckedRows = InPipe' \cup AckedRows'
    BY <1>10, <2>2
  <2> QED
    BY <1>1, <1>10, <2>3, InvParts DEF NeverDrops
<1>15. Flushed'
  BY <1>1, <1>3, <1>10, InvParts DEF Flushed, Finished
<1> QED
  BY <1>1, <1>5, <1>6, <1>7, <1>11, <1>12, <1>13, <1>14, <1>15, InvParts, InvPartsPrime, Frame

----------------------------------------------------------------------------
\* Every step of every goroutine, and every crash, preserves the invariant.
LEMMA StepInv == Inv /\ [Next]_vars => Inv'
<1> SUFFICES ASSUME Inv, [Next]_vars PROVE Inv'
  OBVIOUS
<1>1. CASE Lifecycle
  BY <1>1, PhaseInv, FinalInv DEF Lifecycle
<1>2. CASE SourceNext
  BY <1>2, SourceConnectInv, SourceEndsInv, SourceEmitInv DEF SourceNext
<1>3. CASE DispatcherNext
  BY <1>3, DispatchInv, DispatchEndsInv DEF DispatcherNext
<1>4. ASSUME NEW q \in Queue, PublisherNext(q) PROVE Inv'
  BY <1>4, PubTakeInv, PubStepInv, PubSubmitInv DEF PublisherNext
<1>5. CASE SinkNext
  BY <1>5, AckInv, StaleAckInv, NackInv, StraySubmitInv DEF SinkNext
<1>6. CASE CommitterNext
  BY <1>6, CommitterTickInv, CommitterSaveInv, CommitterStopsInv DEF CommitterNext
<1>7. CASE UNCHANGED vars
  <2>1. Types'
    BY <1>7, InvParts, TypeFrame DEF vars, Types
  <2> QED
    BY <1>7, <2>1, InvParts, InvPartsPrime, Frame DEF vars
<1> QED
  BY <1>1, <1>2, <1>3, <1>4, <1>5, <1>6, <1>7, BinlogCommitInv, LateSaveInv, StopInv,
     RunStartInv, RunLoadFailsInv, CrashInv DEF Next

\* The invariant holds in every reachable state of every run.
LEMMA HyperloopInv == Spec => []Inv
  BY InitInv, StepInv, PTL DEF Spec

\* Every variable of the hyperloop keeps its type through runs, crashes and
\* abandoned goroutines (hyperloop.go:219-462).
THEOREM HyperloopTypeCorrect == Spec => []TypeOK
<1>1. Inv => TypeOK
  BY DEF Inv
<1> QED
  BY <1>1, HyperloopInv, PTL

\* No gaps: whatever fails, lingers, is abandoned or crashes, the saved
\* checkpoint never passes a row that is not on the topic.
THEOREM NoGaps == Spec => []NoGap
<1>1. Inv => NoGap
  BY DEF Inv, AllSettled, Settled, SettledIn, NoGap
<1> QED
  BY <1>1, HyperloopInv, PTL

\* Backpressure never drops: as long as nothing failed, an emitted event is in a
\* channel, a batch or the producer, or it is acknowledged.
THEOREM NothingDropped == Spec => []NeverDrops
<1>1. Inv => NeverDrops
  BY DEF Inv
<1> QED
  BY <1>1, HyperloopInv, PTL

\* The hyperloop itself never moves the saved position back, neither by a
\* restarted run nor by a committer still saving at the final commit.
THEOREM SavedForward == Spec => SavedNeverRegresses
<1> DEFINE Ok == saved' # saved => saved = NoPos \/ saved' > saved \/ late # NoPos
<1>1. ASSUME Inv, NEW p \in Coord, Save(p) \/ SaveFails(p),
             late = NoPos /\ saved # NoPos => saved <= p
      PROVE  Ok
  <2>1. saved' \in {saved, p}
    BY <1>1 DEF Save, SaveFails
  <2>2. saved # NoPos => saved \in Int
    BY <1>1, InvParts DEF Types, TypeStore, Coord
  <2> QED
    BY <1>1, <2>1, <2>2 DEF Coord
<1>2. ASSUME Inv, has, Save(ckpt.coord) \/ SaveFails(ckpt.coord), phase = "final"
      PROVE  Ok
  <2>1. ckpt.coord \in Coord /\ com # "save"
    BY <1>2, InvParts, CkptSettled DEF Committing
  <2>2. late = NoPos /\ saved # NoPos => saved <= ckpt.coord
    BY <1>2, <2>1, InvParts DEF Forward
  <2> QED
    BY <1>1, <1>2, <2>1, <2>2
<1>3. ASSUME Inv, com = "save", Save(comPos) \/ SaveFails(comPos)
      PROVE  Ok
  <2>1. comPos \in Coord /\ phase # "idle"
    BY <1>3, InvParts DEF Committing
  <2>2. late = NoPos /\ saved # NoPos => saved <= comPos
    BY <1>3, <2>1, InvParts DEF Forward
  <2> QED
    BY <1>1, <1>3, <2>1, <2>2
<1>4. ASSUME Inv, Next PROVE Ok
  <2>1. CASE UNCHANGED saved
    BY <2>1
  <2>2. CASE LateSave
    BY <2>2 DEF LateSave
  <2>3. CASE FinalCommit \/ FinalCommitFails
    BY <1>2, <1>4, <2>1, <2>3 DEF FinalCommit, FinalCommitFails
  <2>4. CASE CommitterSaved \/ CommitterSaveFails
    BY <1>3, <1>4, <2>4 DEF CommitterSaved, CommitterSaveFails
  <2>5. CASE Crash
    BY <1>2, <1>3, <1>4, <2>1, <2>5 DEF Crash
  <2>6. SelectStop \/ SelectFinished \/ DrainTimeout \/ Abandon \/ FlushDone
          \/ FlushTimeout \/ CommitterGone => UNCHANGED saved
    BY DEF SelectStop, SelectFinished, DrainTimeout, Abandon, FlushDone, FlushTimeout,
           CommitterGone
  <2>7. SourceNext \/ DispatcherNext => UNCHANGED saved
    BY DEF SourceNext, SourceConnect, SourceFails, SourceEmit, SourceStops,
           DispatcherNext, Dispatch, DispatchEnds
  <2>8. (\E q \in Queue : PublisherNext(q)) => UNCHANGED saved
    BY DEF PublisherNext, PubTake, PubBatch, PubClosed, PubCheck, PubFails, PubSubmit,
           PubCancelled
  <2>9. SinkNext \/ CommitterTick \/ CommitterStops => UNCHANGED saved
    BY DEF SinkNext, Ack, Nack, StraySubmit, CommitterTick, CommitterStops
  <2>10. BinlogCommit \/ Stop \/ RunStart \/ RunLoadFails => UNCHANGED saved
    BY DEF BinlogCommit, Stop, RunStart, RunLoadFails
  <2> QED
    BY <1>4, <2>1, <2>2, <2>3, <2>4, <2>5, <2>6, <2>7, <2>8, <2>9, <2>10
       DEF Next, Lifecycle, CommitterNext
<1>5. Inv /\ [Next]_vars => [Ok]_vars
  BY <1>4
<1> QED
  BY <1>5, HyperloopInv, PTL DEF Spec, SavedNeverRegresses

\* Only a run that has returned is "stopped".
NotStopped == phase # "idle" => status # "stopped"

\* The goroutines of the run and the environment leave run() where it is.
LEMMA OthersLeaveRun ==
    ASSUME Next
    PROVE  UNCHANGED <<phase, status>> \/ Lifecycle \/ RunStart \/ RunLoadFails \/ Crash
<1>1. SourceNext \/ DispatcherNext => UNCHANGED <<phase, status>>
  BY DEF SourceNext, SourceConnect, SourceFails, SourceEmit, SourceStops,
         DispatcherNext, Dispatch, DispatchEnds
<1>2. (\E q \in Queue : PublisherNext(q)) => UNCHANGED <<phase, status>>
  BY DEF PublisherNext, PubTake, PubBatch, PubClosed, PubCheck, PubFails, PubSubmit,
         PubCancelled
<1>3. SinkNext \/ CommitterNext => UNCHANGED <<phase, status>>
  BY DEF SinkNext, Ack, Nack, StraySubmit, CommitterNext, CommitterTick, CommitterStops,
         CommitterSaved, CommitterSaveFails
<1>4. BinlogCommit \/ LateSave \/ Stop => UNCHANGED <<phase, status>>
  BY DEF BinlogCommit, LateSave, Stop
<1> QED
  BY <1>1, <1>2, <1>3, <1>4 DEF Next

LEMMA StatusInv == Spec => []NotStopped
<1>1. Init => NotStopped
  BY DEF Init, NotStopped
<1>2. ASSUME NotStopped, Next PROVE NotStopped'
  <2>1. CASE Lifecycle
    <3>1. phase # "idle" /\ (phase' = "idle" \/ status' \in {status, "stopping"})
      BY <2>1 DEF Lifecycle, SelectStop, SelectFinished, DrainTimeout, Abandon, FlushDone,
                  FlushTimeout, CommitterGone, FinalCommit, FinalCommitFails, Return
    <3> QED
      BY <1>2, <3>1 DEF NotStopped
  <2>2. CASE RunStart \/ RunLoadFails \/ Crash
    BY <2>2 DEF RunStart, RunLoadFails, Crash, NotStopped
  <2> QED
    BY <1>2, <2>1, <2>2, OthersLeaveRun DEF NotStopped
<1>3. NotStopped /\ UNCHANGED vars => NotStopped'
  BY DEF vars, NotStopped
<1> QED
  BY <1>1, <1>2, <1>3, PTL DEF Spec

\* When every emitted event is acknowledged, the checkpoint is the position of
\* the last one.
LEMMA AllAcked ==
    ASSUME Inv, EmittedRows = AckedRows, seq > 0
    PROVE  has /\ ckpt.coord = Base[start + seq]
<1>1. /\ seq \in Nat /\ next \in Nat /\ next >= 1 /\ start # NoPos /\ start \in Nat
  BY InvParts, RowsAreInts DEF Types, TypeFeed, TypeTrack, Sourced, Coord
<1>2. ASSUME NEW s \in 1..seq PROVE s \in DOMAIN acked
  <2>1. s + start \in AckedRows
    BY <1>1 DEF EmittedRows
  <2>2. PICK t \in DOMAIN acked : t + start = s + start
    BY <2>1 DEF AckedRows
  <2>3. t \in Int
    BY <2>2, InvParts DEF Tracked
  <2> QED
    BY <1>1, <2>2, <2>3
<1>3. next \notin DOMAIN acked
  BY <1>1, InvParts DEF Tracked
<1>4. next > seq
  BY <1>1, <1>2, <1>3
<1>5. next - 1 <= seq
  <2>1. next - 1 \in 1..(next - 1)
    BY <1>1, <1>4
  <2> QED
    BY <1>1, <2>1, InvParts DEF Tracked
<1>6. next = seq + 1 /\ next - 1 = seq /\ seq \in 1..seq /\ seq + start = start + seq
  BY <1>1, <1>4, <1>5
<1> QED
  BY <1>1, <1>2, <1>6, InvParts DEF Tracked

\* A clean stop resumes without replay: a Run that returns nil, not having hit
\* the drain timeout, has saved the position of the last event it emitted.
THEOREM CleanStops == Spec => CleanStopSavesAll
<1> DEFINE Ok == (phase = "final" /\ status' = "stopped" /\ ~hardCancelled)
                   => /\ EmittedRows = AckedRows
                      /\ seq > 0 => saved' = Base[start + seq]
<1>1. ASSUME Inv, NotStopped, Next, phase = "final", status' = "stopped", ~hardCancelled
      PROVE  EmittedRows = AckedRows /\ (seq > 0 => saved' = Base[start + seq])
  <2>1. ~UNCHANGED <<phase, status>>
    BY <1>1 DEF NotStopped
  <2>2. status # "stopped"
    BY <1>1 DEF NotStopped
  <2>3. FinalCommit /\ ~runErr
    BY <1>1, <2>1, <2>2, OthersLeaveRun
       DEF Lifecycle, SelectStop, SelectFinished, DrainTimeout, Abandon, FlushDone,
           FlushTimeout, CommitterGone, FinalCommit, FinalCommitFails, Return, RunStart,
           RunLoadFails, Crash
  <2>4. EmittedRows = AckedRows
    BY <1>1, <2>3, InvParts DEF Flushed
  <2>5. ASSUME seq > 0 PROVE saved' = Base[start + seq]
    BY <1>1, <2>3, <2>4, <2>5, AllAcked DEF FinalCommit, Save
  <2> QED
    BY <2>4, <2>5
<1>2. Inv /\ NotStopped /\ [Next]_vars => [Ok]_vars
  BY <1>1
<1> QED
  BY <1>2, HyperloopInv, StatusInv, PTL DEF Spec, CleanStopSavesAll

----------------------------------------------------------------------------
(* Per-key order *)

Ascending(s) == \A i, j \in DOMAIN s : i < j => s[i] < s[j]

\* Rows leave the channel and the queues in the order they entered, and a queue
\* only gets rows that hash to it.
Lanes ==
    /\ Ascending(out)
    /\ \A q \in Queue :
         /\ Ascending(batch[q]) /\ Ascending(queue[q])
         /\ \A r \in Range(batch[q]) \cup Range(queue[q]) :
              pick[r] = q /\ \A s \in Range(out) : r < s
         /\ \A r \in Range(batch[q]), s \in Range(queue[q]) : r < s
         /\ \A r \in EmittedRows \ RowsLeft(q), s \in RowsLeft(q) : pick[r] = q => r < s

LEMMA AscendingAppend ==
    ASSUME NEW s \in Seq(Row), NEW r \in Row, Ascending(s), \A x \in Range(s) : x < r
    PROVE  Ascending(Append(s, r))
<1>1. /\ Len(s) \in Nat /\ DOMAIN s = 1..Len(s) /\ DOMAIN Append(s, r) = 1..(Len(s) + 1)
      /\ \A i \in 1..Len(s) : Append(s, r)[i] = s[i]
      /\ Append(s, r)[Len(s) + 1] = r
  OBVIOUS
<1>2. \A i \in 1..Len(s) : s[i] < r
  BY <1>1 DEF Range
<1>3. ASSUME NEW i \in 1..(Len(s) + 1), NEW j \in 1..(Len(s) + 1), i < j
      PROVE  Append(s, r)[i] < Append(s, r)[j]
  <2>1. i \in 1..Len(s)
    BY <1>1, <1>3
  <2>2. CASE j = Len(s) + 1
    BY <1>1, <1>2, <2>1, <2>2
  <2>3. CASE j \in 1..Len(s)
    BY <1>1, <1>3, <2>1, <2>3 DEF Ascending
  <2> QED
    BY <1>1, <2>2, <2>3
<1> QED
  BY <1>1, <1>3 DEF Ascending

LEMMA AscendingTail ==
    ASSUME NEW s \in Seq(Row), s # <<>>, Ascending(s)
    PROVE  Ascending(Tail(s)) /\ \A x \in Range(Tail(s)) : Head(s) < x
<1>1. Len(s) \in Nat /\ Len(s) >= 1 /\ DOMAIN s = 1..Len(s) /\ Head(s) = s[1]
  BY EmptySeq
<1>2. /\ DOMAIN Tail(s) = 1..(Len(s) - 1)
      /\ \A i \in 1..(Len(s) - 1) : Tail(s)[i] = s[i + 1]
  BY <1>1
<1>3. \A i \in 1..(Len(s) - 1) : i + 1 \in DOMAIN s /\ 1 \in DOMAIN s /\ 1 < i + 1
  BY <1>1
<1>4. \A i, j \in 1..(Len(s) - 1) : i < j => i + 1 < j + 1
  BY <1>1
<1>5. Ascending(Tail(s))
  BY <1>2, <1>3, <1>4 DEF Ascending
<1>6. \A i \in 1..(Len(s) - 1) : Head(s) < Tail(s)[i]
  BY <1>1, <1>2, <1>3 DEF Ascending
<1> QED
  BY <1>2, <1>5, <1>6 DEF Range

LEMMA RowsLeftIs ==
    ASSUME NEW q \in Queue
    PROVE  \A x : x \in RowsLeft(q) <=> \/ x \in Range(batch[q]) \/ x \in Range(queue[q])
                                        \/ x \in Range(out) /\ pick[x] = q
  BY DEF RowsLeft

LEMMA RowsLeftIsPrime ==
    ASSUME NEW q \in Queue
    PROVE  \A x : x \in RowsLeft(q)' <=> \/ x \in Range(batch'[q]) \/ x \in Range(queue'[q])
                                         \/ x \in Range(out') /\ pick'[x] = q
  BY DEF RowsLeft

\* The next row is behind all earlier ones.
LEMMA SourceEmitLanes == ASSUME Inv, Lanes, SourceEmit PROVE Lanes'
<1> DEFINE r == start + seq + 1
<1>1. /\ src = "stream" /\ start + seq < logEnd /\ seq' = seq + 1 /\ out' = Append(out, r)
      /\ UNCHANGED <<pick, start, queue, batch>>
  BY DEF SourceEmit
<1>2. /\ start # NoPos /\ start \in Nat /\ seq \in Nat /\ logEnd \in Nat
      /\ logEnd <= MaxRow /\ MaxRow \in Nat
  BY <1>1, InvParts, RowsAreInts DEF Sourced, Types, TypeEnv, TypeFeed, Coord
<1>3. r \in Row
  BY <1>1, <1>2 DEF Row
<1>4. out \in Seq(Row) /\ Range(out') = Range(out) \cup {r}
  BY <1>1, <1>3, InvParts, RangeAppend DEF Types, TypeFeed
<1>5. EmittedRows = (start + 1)..(start + seq) /\ EmittedRows' = (start + 1)..(start + seq + 1)
  BY <1>1, <1>2 DEF EmittedRows
<1>6. EmittedRows' = EmittedRows \cup {r} /\ \A x \in EmittedRows : x < r
  BY <1>2, <1>5
<1>7. /\ Range(out) \subseteq EmittedRows
      /\ \A q \in Queue : Range(batch[q]) \cup Range(queue[q]) \subseteq EmittedRows
  BY InvParts DEF Pipe
<1> HIDE DEF r
<1>8. Ascending(out')
  BY <1>1, <1>3, <1>4, <1>6, <1>7, AscendingAppend DEF Lanes
<1>9. ASSUME NEW q \in Queue
      PROVE  \A x \in EmittedRows' \ RowsLeft(q)', s \in RowsLeft(q)' : pick'[x] = q => x < s
  <2>1. \A x : x \in RowsLeft(q)' <=> x \in RowsLeft(q) \/ (x = r /\ pick[r] = q)
    BY <1>1, <1>4, RowsLeftIs, RowsLeftIsPrime
  <2>2. \A x \in EmittedRows \ RowsLeft(q), s \in RowsLeft(q) : pick[x] = q => x < s
    BY DEF Lanes
  <2> QED
    BY <1>1, <1>6, <2>1, <2>2
<1> QED
  BY <1>1, <1>4, <1>6, <1>7, <1>8, <1>9 DEF Lanes

\* The head of the channel goes behind the rows of its queue.
LEMMA DispatchLanes == ASSUME Inv, Lanes, Dispatch PROVE Lanes'
<1> DEFINE r == Head(out)
           q == pick[r]
<1>1. /\ out # <<>> /\ out' = Tail(out)
      /\ queue' = [queue EXCEPT ![q] = Append(queue[q], r)]
      /\ UNCHANGED <<pick, start, seq, batch>>
  BY DEF Dispatch
<1>2. /\ r \in Row /\ Range(out) = {r} \cup Range(out') /\ out \in Seq(Row)
      /\ queue \in [Queue -> Seq(Row)]
  BY <1>1, InvParts, RangeTail DEF Types, TypeFeed
<1>3. q \in Queue
  BY <1>2, InvParts, RowsAssumption DEF Types, TypeEnv
<1>4. Ascending(out') /\ \A x \in Range(out') : r < x
  BY <1>1, <1>2, AscendingTail DEF Lanes
<1>5. pick[r] = q
  OBVIOUS
<1> HIDE DEF r, q
<1>6. /\ Range(queue'[q]) = Range(queue[q]) \cup {r} /\ queue'[q] = Append(queue[q], r)
      /\ \A p \in Queue : p # q => queue'[p] = queue[p]
  BY <1>1, <1>2, <1>3, RangeAppend
<1>7. \A x \in Range(batch[q]) \cup Range(queue[q]) : x < r
  BY <1>2, <1>3 DEF Lanes
<1>8. Ascending(queue'[q])
  BY <1>2, <1>3, <1>6, <1>7, AscendingAppend DEF Lanes
<1>9. EmittedRows' = EmittedRows /\ \A p \in Queue : RowsLeft(p)' = RowsLeft(p)
  <2>1. ASSUME NEW p \in Queue PROVE \A x : x \in RowsLeft(p)' <=> x \in RowsLeft(p)
    BY <1>1, <1>2, <1>3, <1>5, <1>6, RowsLeftIs, RowsLeftIsPrime
  <2> QED
    BY <1>1, <2>1 DEF EmittedRows
<1>10. ASSUME NEW p \in Queue
       PROVE  /\ Ascending(batch'[p]) /\ Ascending(queue'[p])
              /\ \A x \in Range(batch'[p]) \cup Range(queue'[p]) :
                   pick'[x] = p /\ \A s \in Range(out') : x < s
              /\ \A x \in Range(batch'[p]), s \in Range(queue'[p]) : x < s
  <2>1. CASE p = q
    <3>1. /\ Ascending(batch[q])
          /\ \A x \in Range(batch[q]) \cup Range(queue[q]) :
               pick[x] = q /\ \A s \in Range(out) : x < s
          /\ \A x \in Range(batch[q]), s \in Range(queue[q]) : x < s
      BY <1>3 DEF Lanes
    <3>2. \A x \in Range(batch'[q]) \cup Range(queue'[q]) :
             pick'[x] = q /\ \A s \in Range(out') : x < s
      BY <1>1, <1>2, <1>4, <1>5, <1>6, <3>1
    <3>3. \A x \in Range(batch'[q]), s \in Range(queue'[q]) : x < s
      BY <1>1, <1>6, <1>7, <3>1
    <3> QED
      BY <1>1, <1>8, <2>1, <3>1, <3>2, <3>3
  <2>2. CASE p # q
    BY <1>1, <1>2, <1>6, <2>2 DEF Lanes
  <2> QED
    BY <2>1, <2>2
<1> QED
  BY <1>1, <1>4, <1>9, <1>10 DEF Lanes

\* The head of a queue goes behind the rows of the publisher's batch.
LEMMA PubTakeLanes == ASSUME Inv, Lanes, NEW q \in Queue, PubTake(q) PROVE Lanes'
<1> DEFINE r == Head(queue[q])
<1>1. /\ queue[q] # <<>>
      /\ batch' = [batch EXCEPT ![q] = Append(batch[q], r)]
      /\ queue' = [queue EXCEPT ![q] = Tail(queue[q])]
      /\ UNCHANGED <<pick, start, seq, out>>
  BY DEF PubTake
<1>2. /\ queue \in [Queue -> Seq(Row)] /\ batch \in [Queue -> Seq(Row)]
  BY InvParts DEF Types, TypeFeed, TypePub
<1>3. r \in Row /\ Range(queue[q]) = {r} \cup Range(Tail(queue[q]))
  BY <1>1, <1>2, RangeTail
<1>4. Ascending(Tail(queue[q])) /\ \A x \in Range(Tail(queue[q])) : r < x
  BY <1>1, <1>2, AscendingTail DEF Lanes
<1> HIDE DEF r
<1>5. /\ queue'[q] = Tail(queue[q]) /\ Range(queue[q]) = Range(queue'[q]) \cup {r}
      /\ \A p \in Queue : p # q => queue'[p] = queue[p]
  BY <1>1, <1>2, <1>3
<1>6. /\ batch'[q] = Append(batch[q], r) /\ Range(batch'[q]) = Range(batch[q]) \cup {r}
      /\ \A p \in Queue : p # q => batch'[p] = batch[p]
  BY <1>1, <1>2, <1>3, RangeAppend
<1>7. Ascending(batch'[q])
  BY <1>2, <1>3, <1>6, AscendingAppend DEF Lanes
<1>8. EmittedRows' = EmittedRows /\ \A p \in Queue : RowsLeft(p)' = RowsLeft(p)
  <2>1. ASSUME NEW p \in Queue PROVE \A x : x \in RowsLeft(p)' <=> x \in RowsLeft(p)
    BY <1>1, <1>5, <1>6, RowsLeftIs, RowsLeftIsPrime
  <2> QED
    BY <1>1, <2>1 DEF EmittedRows
<1>9. ASSUME NEW p \in Queue
      PROVE  /\ Ascending(batch'[p]) /\ Ascending(queue'[p])
             /\ \A x \in Range(batch'[p]) \cup Range(queue'[p]) :
                  pick'[x] = p /\ \A s \in Range(out') : x < s
             /\ \A x \in Range(batch'[p]), s \in Range(queue'[p]) : x < s
  <2>1. CASE p = q
    <3>1. /\ \A x \in Range(batch[q]) \cup Range(queue[q]) :
               pick[x] = q /\ \A s \in Range(out) : x < s
          /\ \A x \in Range(batch[q]), s \in Range(queue[q]) : x < s
      BY DEF Lanes
    <3>2. Ascending(queue'[q]) /\ \A x \in Range(queue'[q]) : r < x
      BY <1>4, <1>5
    <3>3. \A x \in Range(batch'[q]) \cup Range(queue'[q]) :
             pick'[x] = q /\ \A s \in Range(out') : x < s
      BY <1>1, <1>5, <1>6, <3>1
    <3>4. \A x \in Range(batch'[q]), s \in Range(queue'[q]) : x < s
      BY <1>5, <1>6, <3>1, <3>2
    <3> QED
      BY <1>7, <2>1, <3>2, <3>3, <3>4
  <2>2. CASE p # q
    BY <1>1, <1>5, <1>6, <2>2 DEF Lanes
  <2> QED
    BY <2>1, <2>2
<1> QED
  BY <1>1, <1>8, <1>9 DEF Lanes

\* A batch that is submitted is ahead of everything left on its lane.
LEMMA PubSubmitLanes == ASSUME Inv, Lanes, NEW q \in Queue, PubSubmit(q) PROVE Lanes'
<1>1. /\ batch' = [batch EXCEPT ![q] = <<>>] /\ UNCHANGED <<pick, start, seq, out, queue>>
  BY DEF PubSubmit
<1>2. /\ batch'[q] = <<>> /\ Range(batch'[q]) = {}
      /\ \A p \in Queue : p # q => batch'[p] = batch[p]
  BY <1>1, InvParts, RangeEmpty DEF Types, TypePub
<1>3. Ascending(batch'[q])
  BY <1>2 DEF Ascending
<1>4. EmittedRows' = EmittedRows
  BY <1>1 DEF EmittedRows
<1>5. ASSUME NEW p \in Queue, NEW x \in EmittedRows \ RowsLeft(p)', NEW s \in RowsLeft(p)',
             pick[x] = p
      PROVE  x < s
  <2>1. s \in RowsLeft(p) /\ (x \in RowsLeft(p) => p = q /\ x \in Range(batch[q]))
    BY <1>1, <1>2, <1>5, RowsLeftIs, RowsLeftIsPrime
  <2>2. CASE x \in RowsLeft(p)
    <3>1. s \in Range(queue[q]) \/ s \in Range(out)
      BY <1>1, <1>2, <1>5, <2>1, <2>2, RowsLeftIsPrime
    <3> QED
      BY <2>1, <2>2, <3>1 DEF Lanes
  <2>3. CASE x \notin RowsLeft(p)
    BY <1>5, <2>1, <2>3 DEF Lanes
  <2> QED
    BY <2>2, <2>3
<1> QED
  BY <1>1, <1>2, <1>3, <1>4, <1>5 DEF Lanes

\* The other steps move no row.
LEMMA OthersKeepLanes ==
    ASSUME Next, ~SourceEmit, ~Dispatch, ~RunStart, ~Crash, ~SourceConnect,
           \A q \in Queue : ~PubTake(q) /\ ~PubSubmit(q)
    PROVE  UNCHANGED <<pick, start, seq, out, queue, batch>>
<1>1. Lifecycle => UNCHANGED <<pick, start, seq, out, queue, batch>>
  BY DEF Lifecycle, SelectStop, SelectFinished, DrainTimeout, Abandon, FlushDone,
         FlushTimeout, CommitterGone, FinalCommit, FinalCommitFails, Return
<1>2. SourceNext \/ DispatcherNext => UNCHANGED <<pick, start, seq, out, queue, batch>>
  BY DEF SourceNext, SourceFails, SourceStops, DispatcherNext, DispatchEnds
<1>3. (\E q \in Queue : PublisherNext(q)) => UNCHANGED <<pick, start, seq, out, queue, batch>>
  BY DEF PublisherNext, PubBatch, PubClosed, PubCheck, PubFails, PubCancelled
<1>4. SinkNext \/ CommitterNext => UNCHANGED <<pick, start, seq, out, queue, batch>>
  BY DEF SinkNext, Ack, Nack, StraySubmit, CommitterNext, CommitterTick, CommitterStops,
         CommitterSaved, CommitterSaveFails
<1>5. BinlogCommit \/ LateSave \/ Stop \/ RunLoadFails
        => UNCHANGED <<pick, start, seq, out, queue, batch>>
  BY DEF BinlogCommit, LateSave, Stop, RunLoadFails
<1> QED
  BY <1>1, <1>2, <1>3, <1>4, <1>5 DEF Next

LEMMA LanesStep == Inv /\ Lanes /\ [Next]_vars => Lanes'
<1> SUFFICES ASSUME Inv, Lanes, [Next]_vars PROVE Lanes'
  OBVIOUS
<1>1. CASE UNCHANGED <<pick, start, seq, out, queue, batch>>
  BY <1>1 DEF Lanes, EmittedRows, RowsLeft
<1>2. CASE RunStart \/ Crash
  <2>1. out' = <<>> /\ \A q \in Queue : queue'[q] = <<>> /\ batch'[q] = <<>>
    BY <1>2 DEF RunStart, Crash
  <2>2. Range(out') = {} /\ \A q \in Queue : Range(queue'[q]) = {} /\ Range(batch'[q]) = {}
    BY <2>1, RangeEmpty
  <2>3. \A q \in Queue : RowsLeft(q)' = {}
    BY <2>2 DEF RowsLeft
  <2>4. Ascending(<<>>)
    BY DEF Ascending
  <2> QED
    BY <2>1, <2>2, <2>3, <2>4 DEF Lanes
<1>3. CASE SourceConnect
  <2>1. UNCHANGED <<pick, out, queue, batch>> /\ seq' = 0
    BY <1>3, InvParts DEF SourceConnect, Sourced
  <2>2. EmittedRows' = {}
    BY <1>3, <2>1, InvParts DEF EmittedRows, SourceConnect, Types, TypeFeed, TypeEnv, Coord
  <2> QED
    BY <2>1, <2>2 DEF Lanes
<1>4. CASE UNCHANGED vars
  BY <1>1, <1>4 DEF vars
<1> QED
  BY <1>1, <1>2, <1>3, <1>4, SourceEmitLanes, DispatchLanes, PubTakeLanes, PubSubmitLanes,
     OthersKeepLanes

LEMMA LanesInv == Spec => []Lanes
<1>1. Init => Lanes
  <2>1. Ascending(<<>>)
    BY DEF Ascending
  <2> QED
    BY <2>1, RangeEmpty DEF Init, Lanes, RowsLeft
<1> QED
  BY <1>1, LanesStep, HyperloopInv, PTL DEF Spec

LEMMA TwoParts ==
    ASSUME NEW s \in Seq(Row), NEW t \in Seq(Row), NEW w, w = s \o t
    PROVE  /\ w \in Seq(Row) /\ Len(w) = Len(s) + Len(t)
           /\ \A i \in 1..Len(s) : w[i] = s[i]
           /\ \A i \in (Len(s) + 1)..(Len(s) + Len(t)) : w[i] = t[i - Len(s)]
  BY ConcatProperties

\* An index of b \o c \o o is one of b, of c or of o.
Joined(w, b, c, o) ==
    /\ DOMAIN w = 1..(Len(b) + Len(c) + Len(o))
    /\ \A i \in DOMAIN w :
         \/ i \in DOMAIN b /\ i <= Len(b) /\ w[i] = b[i]
         \/ /\ i - Len(b) \in DOMAIN c /\ w[i] = c[i - Len(b)]
            /\ i > Len(b) /\ i <= Len(b) + Len(c)
         \/ /\ i - Len(b) - Len(c) \in DOMAIN o /\ w[i] = o[i - Len(b) - Len(c)]
            /\ i > Len(b) + Len(c)
    /\ Range(b) \cup Range(c) \cup Range(o) \subseteq Range(w)

LEMMA ThreeParts ==
    ASSUME NEW b \in Seq(Row), NEW c \in Seq(Row), NEW o \in Seq(Row)
    PROVE  Joined(b \o c \o o, b, c, o)
<1> DEFINE B == Len(b)
           C == Len(c)
           O == Len(o)
           d == b \o c
           w == b \o c \o o
<1>1. B \in Nat /\ C \in Nat /\ O \in Nat /\ DOMAIN b = 1..B /\ DOMAIN c = 1..C /\ DOMAIN o = 1..O
  OBVIOUS
<1>2. /\ d \in Seq(Row) /\ Len(d) = B + C
      /\ \A i \in 1..B : d[i] = b[i]
      /\ \A i \in (B + 1)..(B + C) : d[i] = c[i - B]
  BY TwoParts
<1>3. /\ DOMAIN w = 1..(B + C + O)
      /\ \A i \in 1..(B + C) : w[i] = d[i]
      /\ \A i \in (B + C + 1)..(B + C + O) : w[i] = o[i - (B + C)]
  <2>1. w = d \o o
    OBVIOUS
  <2> HIDE DEF d, w
  <2>2. /\ w \in Seq(Row) /\ Len(w) = Len(d) + Len(o)
        /\ \A i \in 1..Len(d) : w[i] = d[i]
        /\ \A i \in (Len(d) + 1)..(Len(d) + Len(o)) : w[i] = o[i - Len(d)]
    <3>1. d \in Seq(Row)
      BY <1>2
    <3> QED
      BY <2>1, <3>1, TwoParts
  <2> QED
    BY <1>1, <1>2, <2>2
<1> HIDE DEF B, C, O, d, w
<1>4. \A i \in 1..B : i \in DOMAIN w /\ w[i] = b[i]
  <2> TAKE i \in 1..B
  <2>1. i \in 1..(B + C) /\ i \in 1..(B + C + O)
    BY <1>1
  <2> QED
    BY <1>2, <1>3, <2>1
<1>5. \A j \in 1..C : j + B \in DOMAIN w /\ w[j + B] = c[j]
  <2> TAKE j \in 1..C
  <2>1. /\ j + B \in 1..(B + C) /\ j + B \in 1..(B + C + O) /\ j + B \in (B + 1)..(B + C)
        /\ (j + B) - B = j
    BY <1>1
  <2> QED
    BY <1>2, <1>3, <2>1
<1>6. \A j \in 1..O : j + B + C \in DOMAIN w /\ w[j + B + C] = o[j]
  <2> TAKE j \in 1..O
  <2>1. /\ j + B + C \in 1..(B + C + O) /\ j + B + C \in (B + C + 1)..(B + C + O)
        /\ (j + B + C) - (B + C) = j
    BY <1>1
  <2> QED
    BY <1>3, <2>1
<1>7. Range(b) \cup Range(c) \cup Range(o) \subseteq Range(w)
  <2>1. Range(b) \subseteq Range(w)
    BY <1>1, <1>4 DEF Range
  <2>2. Range(c) \subseteq Range(w)
    BY <1>1, <1>5 DEF Range
  <2>3. Range(o) \subseteq Range(w)
    BY <1>1, <1>6 DEF Range
  <2> QED
    BY <2>1, <2>2, <2>3
<1>8. ASSUME NEW i \in DOMAIN w
      PROVE  \/ i \in DOMAIN b /\ i <= B /\ w[i] = b[i]
             \/ i - B \in DOMAIN c /\ w[i] = c[i - B] /\ i > B /\ i <= B + C
             \/ i - B - C \in DOMAIN o /\ w[i] = o[i - B - C] /\ i > B + C
  <2>0. i \in 1..(B + C + O)
    BY <1>3, <1>8
  <2>1. CASE i <= B
    BY <1>1, <1>4, <2>0, <2>1
  <2>2. CASE i > B /\ i <= B + C
    <3>1. i - B \in 1..C /\ i \in 1..(B + C) /\ i \in (B + 1)..(B + C)
      BY <1>1, <2>0, <2>2
    <3> QED
      BY <1>1, <1>2, <1>3, <2>0, <2>2, <3>1
  <2>3. CASE i > B + C
    <3>1. i - B - C \in 1..O /\ i - (B + C) = i - B - C /\ i \in (B + C + 1)..(B + C + O)
      BY <1>1, <2>0, <2>3
    <3> QED
      BY <1>1, <1>3, <2>0, <2>3, <3>1
  <2> QED
    BY <1>1, <2>0, <2>1, <2>2, <2>3
<1>9. Joined(w, b, c, o)
  BY <1>3, <1>7, <1>8 DEF B, C, O, Joined
<1> QED
  BY <1>9 DEF w

\* Per-key order: within a run the events of a queue, hence those of a key, wait
\* in binlog order between source, dispatcher and publisher, and a publisher
\* never hands one to the producer while an earlier one of its queue waits.
THEOREM LanesKeepOrder == Spec => []LaneOrder
<1>1. ASSUME Inv, Lanes, NEW q \in Queue, NEW w, w = batch[q] \o queue[q] \o out
      PROVE  LET lane == {i \in DOMAIN w : pick[w[i]] = q}
             IN  /\ 1..(Len(batch[q]) + Len(queue[q])) \subseteq lane
                 /\ \A i, j \in lane : i < j => w[i] < w[j]
                 /\ \A i \in lane, r \in EmittedRows \ Range(w) : pick[r] = q => r < w[i]
  <2> DEFINE b == batch[q]
             c == queue[q]
             B == Len(b)
             C == Len(c)
             lane == {i \in DOMAIN w : pick[w[i]] = q}
  <2>1. b \in Seq(Row) /\ c \in Seq(Row) /\ out \in Seq(Row)
    BY <1>1, InvParts DEF Types, TypeFeed, TypePub
  <2>2. /\ Ascending(b) /\ Ascending(c) /\ Ascending(out)
        /\ \A r \in Range(b) \cup Range(c) : pick[r] = q /\ \A s \in Range(out) : r < s
        /\ \A r \in Range(b), s \in Range(c) : r < s
        /\ \A r \in EmittedRows \ RowsLeft(q), s \in RowsLeft(q) : pick[r] = q => r < s
    BY <1>1 DEF Lanes
  <2>3. /\ DOMAIN w = 1..(B + C + Len(out))
        /\ \A i \in DOMAIN w :
             \/ i \in DOMAIN b /\ i <= B /\ w[i] = b[i]
             \/ i - B \in DOMAIN c /\ w[i] = c[i - B] /\ i > B /\ i <= B + C
             \/ i - B - C \in DOMAIN out /\ w[i] = out[i - B - C] /\ i > B + C
        /\ Range(b) \cup Range(c) \cup Range(out) \subseteq Range(w)
    <3>1. Joined(w, b, c, out)
      BY <1>1, <2>1, ThreeParts
    <3> HIDE DEF b, c
    <3> QED
      BY <3>1 DEF Joined
  <2>4. \A x : x \in RowsLeft(q) <=> \/ x \in Range(b) \/ x \in Range(c)
                                     \/ x \in Range(out) /\ pick[x] = q
    BY RowsLeftIs
  <2>5. B \in Nat /\ C \in Nat /\ Len(out) \in Nat
    BY <2>1
  <2> HIDE DEF b, c, B, C
  <2>6. /\ \A i \in DOMAIN b : b[i] \in Range(b)
        /\ \A i \in DOMAIN c : c[i] \in Range(c)
        /\ \A i \in DOMAIN out : out[i] \in Range(out)
    BY DEF Range
  <2>7. 1..(B + C) \subseteq lane
    <3>1. ASSUME NEW i \in 1..(B + C) PROVE i \in DOMAIN w /\ ~(i > B + C)
      BY <2>3, <2>5
    <3>2. ASSUME NEW i \in 1..(B + C) PROVE w[i] \in Range(b) \cup Range(c)
      BY <2>3, <2>6, <3>1
    <3> QED
      BY <2>2, <3>1, <3>2
  <2>8. ASSUME NEW i \in lane, NEW j \in lane, i < j PROVE w[i] < w[j]
    <3>1. i \in 1..(B + C + Len(out)) /\ j \in 1..(B + C + Len(out))
      BY <2>3
    <3>2. /\ i - B < j - B /\ i - B - C < j - B - C /\ (j <= B => i <= B)
          /\ (j <= B + C => i <= B + C)
      BY <2>5, <2>8, <3>1
    <3>3. CASE i \in DOMAIN b /\ i <= B /\ w[i] = b[i]
      BY <2>2, <2>3, <2>6, <2>8, <3>3 DEF Ascending
    <3>4. CASE i - B \in DOMAIN c /\ w[i] = c[i - B] /\ i > B /\ i <= B + C
      <4>1. ~(j <= B)
        BY <2>5, <3>1, <3>2, <3>4
      <4> QED
        BY <2>2, <2>3, <2>6, <3>2, <3>4, <4>1 DEF Ascending
    <3>5. CASE i - B - C \in DOMAIN out /\ w[i] = out[i - B - C] /\ i > B + C
      <4>1. ~(j <= B) /\ ~(j <= B + C)
        BY <2>5, <3>1, <3>2, <3>5
      <4> QED
        BY <2>2, <2>3, <2>6, <3>2, <3>5, <4>1 DEF Ascending
    <3> QED
      BY <2>3, <3>3, <3>4, <3>5
  <2>9. ASSUME NEW i \in lane, NEW r \in EmittedRows \ Range(w), pick[r] = q
        PROVE  r < w[i]
    <3>1. w[i] \in RowsLeft(q)
      BY <2>3, <2>4, <2>6
    <3>2. r \notin RowsLeft(q)
      BY <2>3, <2>4
    <3> QED
      BY <2>2, <2>9, <3>1, <3>2
  <2> QED
    BY <2>7, <2>8, <2>9 DEF B, C, b, c
<1>2. Inv /\ Lanes => LaneOrder
  BY <1>1 DEF LaneOrder
<1> QED
  BY <1>2, HyperloopInv, LanesInv, PTL
=============================================================================
