--------------------------- MODULE TrackerProofs ---------------------------
(***************************************************************************)
(* For every number of events and every set of coordinates: the tracker's  *)
(* checkpoint is the highest reported prefix, its pending map holds what   *)
(* is left, and a moved checkpoint stays dirty until it is taken.          *)
(***************************************************************************)
EXTENDS Tracker, TLAPS

\* Put (the map update of Done and DoneBatch) yields a partial function again,
\* on the union of the two domains.
LEMMA PutType ==
    ASSUME NEW f \in Batches, NEW ps \in Batches
    PROVE  /\ Put(f, ps) \in Batches
           /\ DOMAIN Put(f, ps) = DOMAIN f \cup DOMAIN ps
<1>1. PICK S \in SUBSET SeqNo : f \in [S -> Coord]
  BY DEF Batches
<1>2. PICK T \in SUBSET SeqNo : ps \in [T -> Coord]
  BY DEF Batches
<1>3. Put(f, ps) \in [S \cup T -> Coord]
  BY <1>1, <1>2 DEF Put
<1> QED
  BY <1>1, <1>2, <1>3 DEF Batches, Put

\* Deleting entries of a map (advance) yields a partial function again.
LEMMA RestrictType ==
    ASSUME NEW f \in Batches, NEW D, D \subseteq DOMAIN f
    PROVE  /\ Restrict(f, D) \in Batches
           /\ DOMAIN Restrict(f, D) = D
<1>1. PICK S \in SUBSET SeqNo : f \in [S -> Coord]
  BY DEF Batches
<1>2. Restrict(f, D) \in [D -> Coord]
  BY <1>1 DEF Restrict
<1> QED
  BY <1>1, <1>2 DEF Batches, Restrict

\* The entries of a partial function are coordinates of SeqNos.
LEMMA BatchEntries ==
    ASSUME NEW f \in Batches
    PROVE  /\ DOMAIN f \subseteq SeqNo
           /\ \A s \in DOMAIN f : f[s] \in Coord
  BY DEF Batches

\* A new Tracker (NewTracker) satisfies the invariant.
LEMMA InitInv == Init => Inv
<1> SUFFICES ASSUME Init PROVE Inv
  OBVIOUS
<1> USE MaxSeqAssumption DEF Init, TrackerInit, ZeroPosition
<1>1. <<>> \in Batches /\ DOMAIN <<>> = {}
  <2>1. <<>> \in [{} -> Coord]
    OBVIOUS
  <2> QED
    BY <2>1 DEF Batches
<1>2. TypeOK
  <2>1. pending \in Batches /\ reported \in Batches
    BY <1>1
  <2>2. ckpt \in [SeqNo : 0..MaxSeq, coord : Coord \cup {NoCoord}]
    OBVIOUS
  <2>3. next \in 1..(MaxSeq + 1) /\ handed \in 0..MaxSeq
    OBVIOUS
  <2>4. has \in BOOLEAN /\ dirty \in BOOLEAN
    OBVIOUS
  <2> QED
    BY <2>1, <2>2, <2>3, <2>4, Zenon DEF TypeOK
<1>3. CheckpointIsHighestPrefix
  BY <1>1 DEF CheckpointIsHighestPrefix
<1>4. PendingIsRest
  <2>1. {s \in DOMAIN reported : s > next} = {}
    BY <1>1
  <2> QED
    BY <1>1, <2>1 DEF PendingIsRest, Restrict
<1>5. DirtyUntilTaken
  BY DEF DirtyUntilTaken
<1> QED
  BY <1>2, <1>3, <1>4, <1>5 DEF Inv

\* Reporting a batch (DoneBatch followed by advance) preserves the invariant.
LEMMA ReportBatchInv ==
    ASSUME Inv, NEW ps \in Batches, ReportBatch(ps)
    PROVE  Inv'
<1> DEFINE p == Put(pending, ps)
<1>1. /\ next \in 1..(MaxSeq + 1)
      /\ pending \in Batches /\ reported \in Batches
      /\ ckpt \in [SeqNo : 0..MaxSeq, coord : Coord \cup {NoCoord}]
      /\ has \in BOOLEAN /\ dirty \in BOOLEAN /\ handed \in 0..MaxSeq
  BY DEF Inv, TypeOK
<1>2. /\ DOMAIN ps \cap DOMAIN reported = {}
      /\ reported' = Put(reported, ps)
      /\ handed' = handed
  BY DEF ReportBatch
<1>3. PICK n \in next..(MaxSeq + 1) :
        /\ next..(n - 1) \subseteq DOMAIN p
        /\ n \notin DOMAIN p
        /\ next' = n
        /\ pending' = Restrict(p, DOMAIN p \ (next..(n - 1)))
        /\ IF n = next
           THEN UNCHANGED <<ckpt, has, dirty>>
           ELSE /\ ckpt' = [SeqNo |-> n - 1, coord |-> p[n - 1]]
                /\ has' = TRUE
                /\ dirty' = TRUE
  BY DEF ReportBatch, DoneBatch, advance
<1>4. /\ p \in Batches /\ DOMAIN p = DOMAIN pending \cup DOMAIN ps
      /\ reported' \in Batches
      /\ DOMAIN reported' = DOMAIN reported \cup DOMAIN ps
  BY <1>1, <1>2, PutType
<1>5. /\ DOMAIN p \subseteq SeqNo /\ DOMAIN reported \subseteq SeqNo
      /\ DOMAIN ps \subseteq SeqNo
      /\ \A s \in DOMAIN p : p[s] \in Coord
  BY <1>1, <1>4, BatchEntries
\* The tracker's own map agrees with the history of reports.
<1>6. /\ DOMAIN pending = {s \in DOMAIN reported : s > next}
      /\ \A s \in DOMAIN pending : pending[s] = reported[s]
  BY DEF Inv, PendingIsRest, Restrict
<1>7. \A s \in DOMAIN p : s \in DOMAIN reported' /\ p[s] = reported'[s]
  BY <1>2, <1>4, <1>6 DEF Put
<1>8. \A s \in DOMAIN reported' : s >= next => s \in DOMAIN p
  <2>1. next \notin DOMAIN reported
    BY DEF Inv, CheckpointIsHighestPrefix
  <2> QED
    BY <1>1, <1>4, <1>5, <1>6, <2>1 DEF SeqNo
<1>9. TypeOK'
  <2>1. pending' \in Batches
    <3>1. DOMAIN p \ (next..(n - 1)) \subseteq DOMAIN p
      OBVIOUS
    <3> QED
      BY <1>3, <1>4, <3>1, RestrictType
  <2>2. next' \in 1..(MaxSeq + 1)
    BY <1>1, <1>3, MaxSeqAssumption
  <2>3. /\ ckpt' \in [SeqNo : 0..MaxSeq, coord : Coord \cup {NoCoord}]
        /\ has' \in BOOLEAN /\ dirty' \in BOOLEAN
    <3>1. CASE n = next
      BY <1>1, <1>3, <3>1
    <3>2. CASE n # next
      <4>1. n - 1 \in next..(n - 1) /\ n - 1 \in 0..MaxSeq
        BY <1>1, <1>3, <3>2, MaxSeqAssumption
      <4>2. p[n - 1] \in Coord
        BY <1>3, <1>5, <4>1
      <4> QED
        BY <1>3, <3>2, <4>1, <4>2
    <3> QED
      BY <3>1, <3>2
  <2> QED
    BY <1>1, <1>2, <1>4, <2>1, <2>2, <2>3 DEF TypeOK
<1>10. CheckpointIsHighestPrefix'
  <2>1. 1..(next' - 1) \subseteq DOMAIN reported'
    <3> SUFFICES ASSUME NEW s \in 1..(n - 1) PROVE s \in DOMAIN reported'
      BY <1>3
    <3>1. CASE s < next
      <4>1. s \in 1..(next - 1)
        BY <1>1, <1>3, <3>1
      <4> QED
        BY <1>4, <4>1 DEF Inv, CheckpointIsHighestPrefix
    <3>2. CASE s >= next
      <4>1. s \in next..(n - 1)
        BY <1>1, <1>3, <3>2
      <4> QED
        BY <1>3, <1>7, <4>1
    <3> QED
      BY <1>1, <3>1, <3>2
  <2>2. next' \notin DOMAIN reported'
    BY <1>1, <1>3, <1>8
  <2>3. /\ has' <=> (next' > 1)
        /\ has' => ckpt' = [SeqNo |-> next' - 1, coord |-> reported'[next' - 1]]
    <3>1. CASE n = next
      <4>1. UNCHANGED <<next, ckpt, has>>
        BY <1>3, <3>1
      <4>2. has <=> (next > 1)
        BY DEF Inv, CheckpointIsHighestPrefix
      <4>3. ASSUME has PROVE reported'[next - 1] = reported[next - 1]
        <5>1. next - 1 \in DOMAIN reported
          <6>1. next - 1 \in 1..(next - 1)
            BY <1>1, <4>2, <4>3
          <6> QED
            BY <6>1 DEF Inv, CheckpointIsHighestPrefix
        <5> QED
          BY <1>2, <5>1 DEF Put
      <4>4. has => ckpt = [SeqNo |-> next - 1, coord |-> reported[next - 1]]
        BY DEF Inv, CheckpointIsHighestPrefix
      <4> QED
        BY <4>1, <4>2, <4>3, <4>4
    <3>2. CASE n # next
      <4>1. n - 1 \in next..(n - 1) /\ n > 1
        BY <1>1, <1>3, <3>2
      <4>2. p[n - 1] = reported'[n - 1]
        BY <1>3, <1>7, <4>1
      <4> QED
        BY <1>3, <3>2, <4>1, <4>2
    <3> QED
      BY <3>1, <3>2
  <2> QED
    BY <2>1, <2>2, <2>3 DEF CheckpointIsHighestPrefix
<1>11. PendingIsRest'
  <2>1. DOMAIN p \ (next..(n - 1)) = {s \in DOMAIN reported' : s > n}
    <3>1. \A s \in DOMAIN p : s \notin next..(n - 1) => s > n
      <4> SUFFICES ASSUME NEW s \in DOMAIN p, s \notin next..(n - 1) PROVE s > n
        OBVIOUS
      <4>1. s >= next
        <5>1. ASSUME s \in DOMAIN ps PROVE s >= next
          <6>1. s \notin 1..(next - 1)
            BY <1>2, <5>1 DEF Inv, CheckpointIsHighestPrefix
          <6> QED
            BY <1>1, <1>5, <6>1 DEF SeqNo
        <5>2. ASSUME s \in DOMAIN pending PROVE s >= next
          BY <1>1, <1>5, <1>6, <5>2 DEF SeqNo
        <5> QED
          BY <1>4, <5>1, <5>2
      <4>2. s # n /\ s \in Nat
        BY <1>3, <1>5 DEF SeqNo
      <4> QED
        BY <1>1, <1>3, <4>1, <4>2
    <3>2. \A s \in DOMAIN reported' : s > n => s \in DOMAIN p /\ s \notin next..(n - 1)
      BY <1>1, <1>3, <1>4, <1>5, <1>8 DEF SeqNo
    <3> QED
      BY <1>7, <3>1, <3>2
  <2>2. pending' = Restrict(p, {s \in DOMAIN reported' : s > n})
    BY <1>3, <2>1
  <2>3. Restrict(p, {s \in DOMAIN reported' : s > n})
          = Restrict(reported', {s \in DOMAIN reported' : s > n})
    <3>1. \A s \in {t \in DOMAIN reported' : t > n} : p[s] = reported'[s]
      BY <1>7, <2>1
    <3> QED
      BY <3>1 DEF Restrict
  <2> QED
    BY <1>3, <2>2, <2>3 DEF PendingIsRest
<1>12. DirtyUntilTaken'
  BY <1>2, <1>3 DEF Inv, DirtyUntilTaken
<1> QED
  BY <1>9, <1>10, <1>11, <1>12 DEF Inv

\* Every step of publishers and committer preserves the invariant: a report, a
\* TakeDirty, a Redirty.
LEMMA StepInv == Inv /\ [Next]_vars => Inv'
<1> SUFFICES ASSUME Inv, [Next]_vars PROVE Inv'
  OBVIOUS
<1>1. ASSUME NEW ps \in Batches, ReportBatch(ps) PROVE Inv'
  BY <1>1, ReportBatchInv
<1>2. CASE CommitterTakes
  BY <1>2 DEF Inv, TypeOK, CheckpointIsHighestPrefix, PendingIsRest,
              DirtyUntilTaken, CommitterTakes, TakeDirty
<1>3. CASE CommitterGivesBack
  <2>1. /\ UNCHANGED <<next, pending, ckpt, has, reported>>
        /\ dirty' = TRUE /\ handed' = 0
    BY <1>3 DEF CommitterGivesBack, Redirty
  <2>2. TypeOK'
    BY <2>1, MaxSeqAssumption DEF Inv, TypeOK
  <2>3. CheckpointIsHighestPrefix' /\ PendingIsRest'
    BY <2>1 DEF Inv, CheckpointIsHighestPrefix, PendingIsRest
  <2>4. DirtyUntilTaken'
    BY <2>1 DEF DirtyUntilTaken
  <2> QED
    BY <2>2, <2>3, <2>4 DEF Inv
<1>4. CASE UNCHANGED vars
  BY <1>4 DEF Inv, TypeOK, CheckpointIsHighestPrefix, PendingIsRest,
              DirtyUntilTaken, vars
<1> QED
  BY <1>1, <1>2, <1>3, <1>4 DEF Next

\* The invariant of the Tracker holds in every reachable state.
LEMMA TrackerInv == Spec => []Inv
  BY InitInv, StepInv, PTL DEF Spec

\* Every reachable state of the Tracker is well typed.
THEOREM TrackerTypeCorrect == Spec => []TypeOK
  BY TrackerInv, PTL DEF Inv

\* Whatever the order in which publishers report their events, the Tracker's
\* checkpoint is the highest contiguous prefix: it never covers an event that
\* has not been reported, and it never lags behind the reports.
THEOREM CheckpointNeverSkips == Spec => []CheckpointIsHighestPrefix
  BY TrackerInv, PTL DEF Inv

\* The pending map holds exactly the reports that wait for an earlier event.
THEOREM PendingExact == Spec => []PendingIsRest
  BY TrackerInv, PTL DEF Inv

\* A checkpoint that moved, or whose save failed, stays dirty.
THEOREM MovedCheckpointStaysDirty == Spec => []DirtyUntilTaken
  BY TrackerInv, PTL DEF Inv
=============================================================================
