-------------------------- MODULE DispatcherProofs --------------------------
(***************************************************************************)
(* For any number of queues, capacities, flush size and hash: the staging  *)
(* slices and the micro-batches stay within the flush size, a Run that     *)
(* ends without being cancelled leaves no event behind, and each queue     *)
(* hands over the events of its keys in the order sent, none dropped, none *)
(* twice (the dispatcher implements Router).                               *)
(***************************************************************************)
EXTENDS Dispatcher, WellFoundedInduction, SequenceTheorems, TLAPS

\* The dispatcher's variables have their types.
Typed ==
    /\ pick \in Picks /\ receives \in {0, 1} /\ closed \in BOOLEAN /\ cancelled \in BOOLEAN
    /\ in \in Seq(Seq(Event)) /\ Len(in) <= InCap
    /\ pc \in {"select", "route", "flush", "flushAll", "ended"}
    /\ cur \in Seq(Event) /\ idx \in Queue /\ then \in {"select", "ended"}
    /\ staging \in [Queue -> Seq(Event)]
    /\ queue \in [Queue -> Seq(Seq(Event))]

\* Only the slice that is being flushed may be full (a cancelled flush leaves
\* it full and ends Run), so that there is always room to stage an event.
Staged ==
    /\ \A q \in Queue :
         /\ Len(staging[q]) <= FlushSize
         /\ Len(staging[q]) < FlushSize \/ (pc = "flush" /\ q = idx) \/ pc = "ended"
    /\ pc = "flush" => staging[idx] # <<>>

\* Queues and the micro-batches in them are bounded, and none is empty.
Queued ==
    \A q \in Queue :
        /\ Len(queue[q]) <= BatchCap
        /\ \A i \in DOMAIN queue[q] : Len(queue[q][i]) \in 1..FlushSize

\* flushAll has emptied the slices before idx; the last flushAll happens when
\* the input is closed and drained, and Run ends behind it or when cancelled.
Ending ==
    /\ then = "ended" => pc \in {"flushAll", "ended"} /\ in = <<>> /\ closed
    /\ pc = "flushAll" => \A q \in Queue : q < idx => staging[q] = <<>>
    /\ pc = "ended" => \/ cancelled
                       \/ in = <<>> /\ closed /\ \A q \in Queue : staging[q] = <<>>

Inv == Typed /\ Staged /\ Queued /\ Ending

USE DEF envVars, runVars

----------------------------------------------------------------------------
LEMMA EmptyLen == ASSUME NEW S, NEW s \in Seq(S) PROVE (s = <<>> <=> Len(s) = 0) /\ Len(s) \in Nat
  OBVIOUS

LEMMA QueueBounds == /\ FlushSize \in Nat /\ FlushSize >= 1 /\ BatchCap \in Nat /\ BatchCap >= 1
                     /\ N \in Nat /\ N >= 1
                     /\ \A q \in Queue : q \in Nat /\ 1 <= q /\ q <= N
                     /\ 1 \in Queue
  BY DispatcherAssumption DEF Queue

LEMMA InitInv == Init => Inv
<1> SUFFICES ASSUME Init PROVE Inv
  OBVIOUS
<1>1. /\ <<>> \in Seq(Seq(Event)) /\ <<>> \in Seq(Event) /\ Len(<<>>) = 0 /\ DOMAIN <<>> = {}
  OBVIOUS
<1>2. Typed
  <2>1. in \in Seq(Seq(Event)) /\ Len(in) <= InCap /\ cur \in Seq(Event)
    BY <1>1, DispatcherAssumption DEF Init
  <2>2. staging \in [Queue -> Seq(Event)] /\ queue \in [Queue -> Seq(Seq(Event))]
    BY <1>1 DEF Init
  <2> QED
    BY <2>1, <2>2, QueueBounds DEF Init, Typed
<1>3. \A q \in Queue : staging[q] = <<>> /\ queue[q] = <<>>
  BY DEF Init
<1>4. Staged /\ Queued
  BY <1>1, <1>3, QueueBounds DEF Init, Staged, Queued
<1> QED
  BY <1>2, <1>3, <1>4 DEF Init, Inv, Ending

\* The environment: it touches neither Run's place nor the staging slices.
LEMMA SourceSendsInv == ASSUME Inv, NEW b \in Batch, SourceSends(b) PROVE Inv'
<1>1. b \in Seq(Event)
  BY DEF Batch
<1>2. Append(in, b) \in Seq(Seq(Event)) /\ Len(Append(in, b)) = Len(in) + 1 /\ Len(in) \in Nat
  BY <1>1 DEF Inv, Typed
<1>3. InCap \in Nat
  BY DispatcherAssumption
<1>4. Typed'
  BY <1>2, <1>3 DEF Inv, Typed, SourceSends
<1>5. Staged' /\ Queued'
  BY DEF Inv, Staged, Queued, SourceSends
<1>6. Ending'
  BY DEF Inv, Ending, SourceSends
<1> QED
  BY <1>4, <1>5, <1>6 DEF Inv

LEMMA EnvInv == ASSUME Inv, SourceCloses \/ Cancel PROVE Inv'
<1>1. Typed'
  BY DEF Inv, Typed, SourceCloses, Cancel
<1>2. Staged' /\ Queued'
  BY DEF Inv, Staged, Queued, SourceCloses, Cancel
<1>3. Ending'
  BY DEF Inv, Ending, SourceCloses, Cancel
<1> QED
  BY <1>1, <1>2, <1>3 DEF Inv

LEMMA PublisherReceivesInv == ASSUME Inv, NEW q \in Queue, PublisherReceives(q) PROVE Inv'
<1>1. /\ queue[q] # <<>> /\ queue' = [queue EXCEPT ![q] = Tail(queue[q])]
      /\ receives' = 1 - receives
      /\ UNCHANGED <<pick, in, closed, cancelled, pc, cur, idx, then, staging>>
  BY DEF PublisherReceives
<1>2. queue \in [Queue -> Seq(Seq(Event))]
  BY DEF Inv, Typed
<1> DEFINE s == queue[q]
<1>3. s \in Seq(Seq(Event)) /\ s # <<>>
  BY <1>1, <1>2
<1> HIDE DEF s
<1>4. /\ Tail(s) \in Seq(Seq(Event)) /\ Len(s) \in Nat /\ Len(s) >= 1
      /\ Len(Tail(s)) = Len(s) - 1 /\ DOMAIN Tail(s) = 1..(Len(s) - 1)
      /\ DOMAIN s = 1..Len(s)
      /\ \A i \in 1..(Len(s) - 1) : Tail(s)[i] = s[i + 1]
  BY <1>3, EmptyLen
<1>5. queue'[q] = Tail(s) /\ \A p \in Queue : p # q => queue'[p] = queue[p]
  BY <1>1, <1>2 DEF s
<1>6. Typed'
  BY <1>1, <1>2, <1>4 DEF Inv, Typed, s
<1>7. Len(Tail(s)) <= BatchCap /\ \A i \in DOMAIN Tail(s) : Len(Tail(s)[i]) \in 1..FlushSize
  <2>1. Len(s) <= BatchCap /\ \A i \in DOMAIN s : Len(s[i]) \in 1..FlushSize
    BY DEF Inv, Queued, s
  <2>2. \A i \in 1..(Len(s) - 1) : i + 1 \in DOMAIN s
    BY <1>4
  <2> QED
    BY <1>4, <2>1, <2>2, QueueBounds
<1>8. Queued'
  BY <1>5, <1>7 DEF Inv, Queued
<1>9. Staged' /\ Ending'
  BY <1>1 DEF Inv, Staged, Ending
<1> QED
  BY <1>6, <1>8, <1>9 DEF Inv

\* The steps of Run that only move its place.
LEMMA ReceiveInv == ASSUME Inv, Receive PROVE Inv'
<1>1. in # <<>> /\ in \in Seq(Seq(Event)) /\ Len(in) <= InCap /\ InCap \in Nat
  BY DispatcherAssumption DEF Receive, Inv, Typed
<1>2. Head(in) \in Seq(Event) /\ Tail(in) \in Seq(Seq(Event)) /\ Len(Tail(in)) <= InCap
  BY <1>1
<1>3. Typed'
  BY <1>2 DEF Inv, Typed, Receive
<1>4. Staged' /\ Queued' /\ Ending'
  BY DEF Inv, Staged, Queued, Ending, Receive
<1> QED
  BY <1>3, <1>4 DEF Inv

LEMMA MovesInv == ASSUME Inv, ReceiveClosed \/ Tick \/ CtxDone \/ Routed PROVE Inv'
<1>0. UNCHANGED <<pick, in, closed, cancelled, receives, cur, staging, queue>>
  BY DEF ReceiveClosed, Tick, CtxDone, Routed
<1>1. Typed'
  BY QueueBounds DEF Inv, Typed, ReceiveClosed, Tick, CtxDone, Routed
<1>2. Staged'
  BY DEF Inv, Staged, ReceiveClosed, Tick, CtxDone, Routed
<1>3. Queued'
  BY <1>0 DEF Inv, Queued
<1>4. idx' = 1
  BY DEF ReceiveClosed, Tick, CtxDone, Routed
<1>5. \A q \in Queue : ~(q < idx')
  BY <1>4, QueueBounds
<1>6. Ending'
  BY <1>0, <1>5 DEF Inv, Ending, ReceiveClosed, Tick, CtxDone, Routed
<1> QED
  BY <1>1, <1>2, <1>3, <1>6 DEF Inv

\* Staging an event fills at most its own slice, and then it is flushed.
LEMMA RouteInv == ASSUME Inv, Route PROVE Inv'
<1> DEFINE e == Head(cur)
           q == pick[e]
           s == Append(staging[q], e)
<1>1. /\ pc = "route" /\ cur # <<>> /\ staging' = [staging EXCEPT ![q] = s]
      /\ cur' = Tail(cur)
      /\ IF Len(s) >= FlushSize THEN pc' = "flush" /\ idx' = q ELSE UNCHANGED <<pc, idx>>
      /\ UNCHANGED <<pick, in, closed, cancelled, receives, then, queue>>
  BY DEF Route
<1>2. e \in Event /\ Tail(cur) \in Seq(Event)
  BY <1>1, EmptyLen DEF Inv, Typed
<1>3. q \in Queue
  BY <1>2, DispatcherAssumption DEF Inv, Typed
<1> HIDE DEF e, q
<1>4. staging \in [Queue -> Seq(Event)]
  BY DEF Inv, Typed
<1>5. s \in Seq(Event) /\ Len(s) = Len(staging[q]) + 1 /\ Len(staging[q]) \in Nat /\ s # <<>>
  <2> DEFINE t == staging[q]
  <2>1. t \in Seq(Event) /\ e \in Event
    BY <1>2, <1>3, <1>4
  <2> HIDE DEF t
  <2>2. Append(t, e) \in Seq(Event) /\ Len(Append(t, e)) = Len(t) + 1 /\ Len(t) \in Nat
    BY ONLY <2>1
  <2>3. Append(t, e) # <<>>
    BY ONLY <2>2, EmptyLen
  <2> QED
    BY <2>2, <2>3 DEF t
<1>6. Len(staging[q]) < FlushSize
  BY <1>1, <1>3 DEF Inv, Staged
<1> HIDE DEF s
<1>7. staging'[q] = s /\ \A p \in Queue : p # q => staging'[p] = staging[p]
  BY <1>1, <1>3, <1>4
<1>8. Typed'
  BY <1>1, <1>2, <1>3, <1>4, <1>5 DEF Inv, Typed
<1>9. Len(s) <= FlushSize
  BY <1>5, <1>6, QueueBounds
<1>10. Staged'
  <2>1. ASSUME NEW p \in Queue, p # q
        PROVE Len(staging'[p]) <= FlushSize /\ Len(staging'[p]) < FlushSize
    BY <1>1, <1>7, <2>1, QueueBounds DEF Inv, Staged
  <2>2. CASE Len(s) >= FlushSize
    BY <1>1, <1>3, <1>5, <1>7, <1>9, <2>1, <2>2 DEF Staged
  <2>3. CASE ~(Len(s) >= FlushSize)
    <3>1. Len(s) < FlushSize
      BY <1>5, <2>3, QueueBounds
    <3> QED
      BY <1>1, <1>7, <1>9, <2>1, <2>3, <3>1 DEF Staged
  <2> QED
    BY <2>2, <2>3
<1>11. Queued'
  BY <1>1 DEF Inv, Queued
<1>12. Ending'
  BY <1>1 DEF Inv, Ending
<1> QED
  BY <1>8, <1>10, <1>11, <1>12 DEF Inv

\* The send of a slice that is not empty.
LEMMA SendStagedInv ==
    ASSUME Inv, NEW q \in Queue, SendStaged(q), staging[q] # <<>>
    PROVE  /\ staging' \in [Queue -> Seq(Event)] /\ queue' \in [Queue -> Seq(Seq(Event))]
           /\ Queued'
           /\ staging'[q] = <<>> /\ \A p \in Queue : p # q => staging'[p] = staging[p]
<1>1. /\ staging \in [Queue -> Seq(Event)] /\ queue \in [Queue -> Seq(Seq(Event))]
  BY DEF Inv, Typed
<1> DEFINE s == queue[q]
           m == staging[q]
           t == Append(s, m)
<1>2. /\ Len(s) < BatchCap /\ queue' = [queue EXCEPT ![q] = t]
      /\ staging' = [staging EXCEPT ![q] = <<>>]
  BY DEF SendStaged
<1>3. s \in Seq(Seq(Event)) /\ m \in Seq(Event) /\ m # <<>>
  BY <1>1
<1>4. Len(m) \in 1..FlushSize
  <2>1. Len(m) <= FlushSize
    BY DEF Inv, Staged
  <2> HIDE DEF m
  <2> QED
    BY <1>3, <2>1, EmptyLen, QueueBounds
<1>5. Len(s) <= BatchCap /\ \A i \in DOMAIN s : Len(s[i]) \in 1..FlushSize
  BY DEF Inv, Queued
<1> HIDE DEF s, m
<1>6. /\ t \in Seq(Seq(Event)) /\ Len(t) = Len(s) + 1 /\ Len(s) \in Nat
      /\ DOMAIN t = 1..(Len(s) + 1) /\ DOMAIN s = 1..Len(s)
      /\ \A i \in 1..Len(s) : t[i] = s[i]
      /\ t[Len(s) + 1] = m
  BY <1>3
<1> HIDE DEF t
<1>7. Len(t) <= BatchCap
  BY <1>2, <1>6, QueueBounds
<1>8. \A i \in DOMAIN t : Len(t[i]) \in 1..FlushSize
  <2>1. \A i \in 1..(Len(s) + 1) : i \in 1..Len(s) \/ i = Len(s) + 1
    BY <1>6
  <2> QED
    BY <1>4, <1>5, <1>6, <2>1
<1>9. queue'[q] = t /\ \A p \in Queue : p # q => queue'[p] = queue[p]
  BY <1>1, <1>2
<1>10. Queued'
  BY <1>7, <1>8, <1>9 DEF Inv, Queued
<1>11. <<>> \in Seq(Event)
  OBVIOUS
<1> QED
  BY <1>1, <1>2, <1>6, <1>10, <1>11

LEMMA FlushInv == ASSUME Inv, Flush PROVE Inv'
<1>1. /\ pc = "flush" /\ SendStaged(idx) /\ pc' = "route" /\ idx' = 1
      /\ UNCHANGED <<pick, closed, cancelled, receives, in, cur, then>>
  BY DEF Flush
<1>2. idx \in Queue /\ staging[idx] # <<>>
  BY <1>1 DEF Inv, Typed, Staged
<1>3. /\ staging' \in [Queue -> Seq(Event)] /\ queue' \in [Queue -> Seq(Seq(Event))]
      /\ Queued'
      /\ staging'[idx] = <<>> /\ \A p \in Queue : p # idx => staging'[p] = staging[p]
  BY <1>1, <1>2, SendStagedInv
<1>4. Typed'
  BY <1>1, <1>3, QueueBounds DEF Inv, Typed
<1>5. Len(<<>>) = 0
  OBVIOUS
<1>6. \A p \in Queue : Len(staging'[p]) <= FlushSize /\ Len(staging'[p]) < FlushSize
  <2> TAKE p \in Queue
  <2>1. CASE p = idx
    BY <1>3, <1>5, <2>1, QueueBounds
  <2>2. CASE p # idx
    BY <1>1, <1>3, <2>2 DEF Inv, Staged
  <2> QED
    BY <2>1, <2>2
<1>7. Staged'
  BY <1>1, <1>6 DEF Staged
<1>8. Ending'
  BY <1>1 DEF Inv, Ending
<1> QED
  BY <1>3, <1>4, <1>7, <1>8 DEF Inv

\* flushAll empties one slice after the other, and the last one last.
LEMMA FlushAllInv == ASSUME Inv, FlushAll PROVE Inv'
<1>1. /\ pc = "flushAll"
      /\ IF staging[idx] = <<>> THEN UNCHANGED <<staging, queue>> ELSE SendStaged(idx)
      /\ IF idx < N THEN idx' = idx + 1 /\ UNCHANGED pc ELSE idx' = 1 /\ pc' = then
      /\ UNCHANGED <<pick, closed, cancelled, receives, in, cur, then>>
  BY DEF FlushAll
<1>2. idx \in Queue
  BY DEF Inv, Typed
<1>3. /\ staging' \in [Queue -> Seq(Event)] /\ queue' \in [Queue -> Seq(Seq(Event))]
      /\ Queued'
      /\ staging'[idx] = <<>> /\ \A p \in Queue : p # idx => staging'[p] = staging[p]
  <2>1. CASE staging[idx] = <<>>
    BY <1>1, <2>1 DEF Inv, Typed, Queued
  <2>2. CASE staging[idx] # <<>>
    BY <1>1, <1>2, <2>2, SendStagedInv
  <2> QED
    BY <2>1, <2>2
<1>4. idx' \in Queue
  BY <1>1, <1>2, QueueBounds DEF Queue
<1>5. Typed'
  BY <1>1, <1>3, <1>4 DEF Inv, Typed
<1>6. \A p \in Queue : Len(staging'[p]) <= FlushSize /\ Len(staging'[p]) < FlushSize
  <2> TAKE p \in Queue
  <2>0. Len(<<>>) = 0
    OBVIOUS
  <2>1. CASE p = idx
    BY <1>3, <2>0, <2>1, QueueBounds
  <2>2. CASE p # idx
    BY <1>1, <1>3, <2>2 DEF Inv, Staged
  <2> QED
    BY <2>1, <2>2
<1>7. pc' # "flush"
  BY <1>1 DEF Inv, Typed
<1>8. Staged'
  BY <1>6, <1>7 DEF Staged
<1>9. \A p \in Queue : p <= idx => staging'[p] = <<>>
  <2> TAKE p \in Queue
  <2>1. p # idx /\ p <= idx => p < idx
    BY <1>2, QueueBounds
  <2> QED
    BY <1>1, <1>3, <2>1 DEF Inv, Ending
<1>10. CASE idx < N
  <2>1. \A p \in Queue : p < idx' => p <= idx
    BY <1>1, <1>2, <1>10, QueueBounds
  <2>2. Ending'
    BY <1>1, <1>9, <1>10, <2>1 DEF Inv, Ending
  <2> QED
    BY <1>3, <1>5, <1>8, <2>2 DEF Inv
<1>11. CASE ~(idx < N)
  <2>1. \A p \in Queue : p <= idx
    BY <1>2, <1>11, QueueBounds
  <2>2. \A p \in Queue : staging'[p] = <<>>
    BY <1>9, <2>1
  <2>3. Ending'
    BY <1>1, <1>11, <2>2 DEF Inv, Typed, Ending
  <2> QED
    BY <1>3, <1>5, <1>8, <2>3 DEF Inv
<1> QED
  BY <1>10, <1>11

LEMMA StepInv == Inv /\ [Next]_vars => Inv'
<1> SUFFICES ASSUME Inv, [Next]_vars PROVE Inv'
  OBVIOUS
<1>1. CASE UNCHANGED vars
  BY <1>1 DEF vars, Inv, Typed, Staged, Queued, Ending
<1>2. CASE Next
  BY <1>2, SourceSendsInv, EnvInv, PublisherReceivesInv, ReceiveInv, MovesInv, RouteInv,
     FlushInv, FlushAllInv DEF Next, RunStep
<1> QED
  BY <1>1, <1>2

LEMMA DispatcherInv == Spec => []Inv
  BY InitInv, StepInv, PTL DEF Spec

\* Every variable of the dispatcher has its type; a staging slice, a queue and a
\* micro-batch never exceed their bounds, and no micro-batch is empty.
THEOREM DispatcherTypeCorrect == Spec => []TypeOK
<1>1. Inv => TypeOK
  BY DEF Inv, Typed, Staged, Queued, TypeOK
<1> QED
  BY <1>1, DispatcherInv, PTL

\* A source that ends loses nothing: when Run returns and was not cancelled,
\* neither the input nor a staging slice holds an event.
THEOREM ClosedIsFlushed == Spec => []CloseFlushesAll
<1>1. Inv => CloseFlushesAll
  BY DEF Inv, Ending, CloseFlushesAll
<1> QED
  BY <1>1, DispatcherInv, PTL

----------------------------------------------------------------------------
(* Least elements and induction over the natural numbers, stated of sets: a *)
(* lemma of sets can be cited with the set an argument is about.           *)

\* A set of natural numbers that is not empty has a least element.
LEMMA LeastElement ==
    ASSUME NEW T \in SUBSET Nat, T # {}
    PROVE  \E x \in T : \A y \in T : x <= y
<1> DEFINE Less == OpToRel(<, Nat)
<1>1. IsWellFoundedOn(Less, Nat)
  BY NatLessThanWellFounded
<1>2. \A x, y \in Nat : <<y, x>> \in Less <=> y < x
  BY DEF OpToRel
<1> HIDE DEF Less
<1>3. PICK x \in T : \A y \in T : ~(<<y, x>> \in Less)
  BY <1>1, WFMin
<1>4. \A y \in T : y \in Nat /\ x \in Nat /\ ~(y < x)
  BY <1>2, <1>3
<1>5. \A y \in T : x <= y
  BY <1>4
<1> QED
  BY <1>5

\* Induction: a set with 0 and the successors of its elements is all of Nat.
LEMMA SetInduction ==
    ASSUME NEW T \in SUBSET Nat, 0 \in T, \A n \in T : n + 1 \in T
    PROVE  \A n \in Nat : n \in T
<1> SUFFICES ASSUME Nat \ T # {} PROVE FALSE
  OBVIOUS
<1>1. PICK x \in Nat \ T : \A y \in Nat \ T : x <= y
  BY LeastElement
<1>2. x # 0 /\ x - 1 \in Nat /\ ~(x <= x - 1) /\ (x - 1) + 1 = x
  BY <1>1
<1>3. x - 1 \in T
  BY <1>1, <1>2
<1> QED
  BY <1>1, <1>2, <1>3

----------------------------------------------------------------------------
(* Flattening a sequence of sequences, step by step *)

FlatTo(g, ss, n) == g = [i \in 1..n |-> IF i = 1 THEN ss[i] ELSE g[i - 1] \o ss[i]]

LEMMA FlatIs ==
    ASSUME NEW ss, Len(ss) # 0
    PROVE  FlattenSeq(ss) = (CHOOSE g : FlatTo(g, ss, Len(ss)))[Len(ss)]
  BY DEF FlattenSeq, FlatTo

LEMMA FlatExists ==
    ASSUME NEW S, NEW ss \in Seq(Seq(S))
    PROVE  \A n \in Nat : n + 1 <= Len(ss) =>
              \E g : FlatTo(g, ss, n + 1) /\ \A i \in 1..(n + 1) : g[i] \in Seq(S)
<1> DEFINE Ok(n) == \E g : FlatTo(g, ss, n + 1) /\ \A i \in 1..(n + 1) : g[i] \in Seq(S)
           T == {n \in Nat : n + 1 <= Len(ss) => Ok(n)}
<1>0. Len(ss) \in Nat /\ \A i \in 1..Len(ss) : ss[i] \in Seq(S)
  OBVIOUS
<1>1. 0 \in T
  <2> SUFFICES ASSUME 0 + 1 <= Len(ss) PROVE Ok(0)
    OBVIOUS
  <2> DEFINE g == [i \in 1..1 |-> ss[i]]
  <2>1. ss[1] \in Seq(S)
    BY <1>0
  <2>2. g = [i \in 1..1 |-> IF i = 1 THEN ss[i] ELSE g[i - 1] \o ss[i]] /\ \A i \in 1..1 : g[i] \in Seq(S)
    BY <2>1
  <2>3. 0 + 1 = 1
    OBVIOUS
  <2> QED
    BY <2>2, <2>3 DEF FlatTo
<1>2. ASSUME NEW n \in T PROVE n + 1 \in T
  <2> DEFINE k == n + 1
  <2>1. SUFFICES ASSUME k + 1 <= Len(ss) PROVE Ok(k)
    OBVIOUS
  <2>2. k \in Nat /\ k >= 1 /\ k <= Len(ss) /\ k + 1 \in 1..Len(ss)
    BY <1>0, <2>1
  <2>3. PICK g : FlatTo(g, ss, k) /\ \A i \in 1..k : g[i] \in Seq(S)
    BY <2>2
  <2> HIDE DEF k
  <2> DEFINE h == [i \in 1..(k + 1) |-> IF i = k + 1 THEN g[k] \o ss[k + 1] ELSE g[i]]
  <2>4. \A i \in 1..k : g[i] = IF i = 1 THEN ss[i] ELSE g[i - 1] \o ss[i]
    BY <2>3 DEF FlatTo
  <2>5. ASSUME NEW i \in 1..(k + 1)
        PROVE  /\ h[i] = IF i = 1 THEN ss[i] ELSE h[i - 1] \o ss[i]
               /\ h[i] \in Seq(S)
    <3>1. CASE i = k + 1
      <4>1. i # 1 /\ i - 1 = k /\ k \in 1..(k + 1) /\ k # k + 1 /\ k \in 1..k
        BY <2>2, <3>1
      <4>2. g[k] \in Seq(S) /\ ss[k + 1] \in Seq(S)
        BY <1>0, <2>2, <2>3, <4>1
      <4>3. g[k] \o ss[k + 1] \in Seq(S)
        BY <4>2, ConcatProperties
      <4> QED
        BY <3>1, <4>1, <4>3
    <3>2. CASE i # k + 1
      <4>1. i \in 1..k /\ (i # 1 => i - 1 \in 1..(k + 1) /\ i - 1 # k + 1)
        BY <2>2, <3>2
      <4> QED
        BY <2>3, <2>4, <3>2, <4>1
    <3> QED
      BY <3>1, <3>2
  <2>6. FlatTo(h, ss, k + 1)
    <3> DEFINE d == [i \in 1..(k + 1) |-> IF i = 1 THEN ss[i] ELSE h[i - 1] \o ss[i]]
    <3>1. h = d
      BY <2>5
    <3> QED
      BY <3>1 DEF FlatTo
  <2> HIDE DEF h
  <2> QED
    BY <2>5, <2>6
<1>3. T \in SUBSET Nat
  OBVIOUS
<1> HIDE DEF T
<1>4. \A n \in Nat : n \in T
  BY <1>1, <1>2, <1>3, SetInduction
<1> QED
  BY <1>4 DEF T

LEMMA FlatUnique ==
    ASSUME NEW n \in Nat, NEW m \in Nat, n <= m, NEW g, NEW h, NEW ss, NEW tt,
           FlatTo(g, ss, n), FlatTo(h, tt, m), \A i \in 1..n : ss[i] = tt[i]
    PROVE  \A i \in 1..n : g[i] = h[i]
<1> DEFINE T == {k \in Nat : k + 1 <= n => g[k + 1] = h[k + 1]}
<1>1. /\ \A i \in 1..n : g[i] = IF i = 1 THEN ss[i] ELSE g[i - 1] \o ss[i]
      /\ \A i \in 1..n : i \in 1..m
      /\ \A i \in 1..m : h[i] = IF i = 1 THEN tt[i] ELSE h[i - 1] \o tt[i]
  <2>1. \A i \in 1..n : g[i] = IF i = 1 THEN ss[i] ELSE g[i - 1] \o ss[i]
    BY DEF FlatTo
  <2>2. \A i \in 1..m : h[i] = IF i = 1 THEN tt[i] ELSE h[i - 1] \o tt[i]
    BY DEF FlatTo
  <2>3. \A i \in 1..n : i \in 1..m
    OBVIOUS
  <2> QED
    BY <2>1, <2>2, <2>3
<1>2. 0 \in T
  <2>1. 0 + 1 = 1 /\ (1 <= n => 1 \in 1..n)
    OBVIOUS
  <2> QED
    BY <1>1, <2>1
<1>3. ASSUME NEW k \in T PROVE k + 1 \in T
  <2> DEFINE j == (k + 1) + 1
  <2> SUFFICES ASSUME j <= n PROVE g[j] = h[j]
    OBVIOUS
  <2>1. k \in Nat /\ j \in 1..n /\ j # 1 /\ j - 1 = k + 1 /\ k + 1 <= n
    OBVIOUS
  <2>2. g[k + 1] = h[k + 1]
    BY <2>1
  <2> QED
    BY <1>1, <2>1, <2>2
<1>4. T \in SUBSET Nat
  OBVIOUS
<1> HIDE DEF T
<1>5. \A k \in Nat : k \in T
  BY <1>2, <1>3, <1>4, SetInduction
<1>6. \A k \in Nat : k + 1 <= n => g[k + 1] = h[k + 1]
  BY <1>5 DEF T
<1>7. \A i \in 1..n : i - 1 \in Nat /\ (i - 1) + 1 = i /\ i <= n
  OBVIOUS
<1> QED
  BY <1>6, <1>7

LEMMA FlatType ==
    ASSUME NEW S, NEW ss \in Seq(Seq(S))
    PROVE  /\ FlattenSeq(ss) \in Seq(S)
           /\ Len(ss) # 0 => FlatTo(CHOOSE g : FlatTo(g, ss, Len(ss)), ss, Len(ss))
<1>1. CASE Len(ss) = 0
  <2>1. ss = <<>>
    BY <1>1
  <2>2. FlattenSeq(ss) = ss
    BY <1>1 DEF FlattenSeq
  <2>3. <<>> \in Seq(S)
    OBVIOUS
  <2> QED
    BY <1>1, <2>1, <2>2, <2>3
<1>2. CASE Len(ss) # 0
  <2> DEFINE n == Len(ss)
             G == CHOOSE g : FlatTo(g, ss, n)
  <2>1. n \in Nat /\ n - 1 \in Nat /\ (n - 1) + 1 = n /\ n \in 1..n /\ n <= n
    BY <1>2
  <2>2. PICK g : FlatTo(g, ss, n) /\ \A i \in 1..n : g[i] \in Seq(S)
    <3>1. \E g : FlatTo(g, ss, (n - 1) + 1) /\ \A i \in 1..((n - 1) + 1) : g[i] \in Seq(S)
      BY <2>1, FlatExists
    <3> QED
      BY <2>1, <3>1
  <2>3. FlatTo(G, ss, n) /\ FlattenSeq(ss) = G[n]
    BY <1>2, <2>2, FlatIs
  <2> HIDE DEF G
  <2>4. G[n] = g[n]
    BY <2>1, <2>2, <2>3, FlatUnique
  <2> QED
    BY <2>1, <2>2, <2>3, <2>4 DEF G
<1> QED
  BY <1>1, <1>2

\* One sequence more.
LEMMA FlatAppend ==
    ASSUME NEW S, NEW ss \in Seq(Seq(S)), NEW s \in Seq(S)
    PROVE  FlattenSeq(Append(ss, s)) = FlattenSeq(ss) \o s
<1> DEFINE tt == Append(ss, s)
           n == Len(ss)
           H == CHOOSE g : FlatTo(g, tt, Len(tt))
           G == CHOOSE g : FlatTo(g, ss, n)
<1>1. /\ tt \in Seq(Seq(S)) /\ Len(tt) = n + 1 /\ n \in Nat /\ tt[n + 1] = s
      /\ \A i \in 1..n : ss[i] = tt[i]
  OBVIOUS
<1> HIDE DEF tt
<1>2. Len(tt) # 0
  BY <1>1
<1>3. FlatTo(H, tt, n + 1) /\ FlattenSeq(tt) = H[n + 1]
  BY <1>1, <1>2, FlatType, FlatIs
<1> HIDE DEF H
<1>4. H[n + 1] = IF n + 1 = 1 THEN tt[n + 1] ELSE H[(n + 1) - 1] \o tt[n + 1]
  <2>1. n + 1 \in 1..(n + 1)
    BY <1>1
  <2> QED
    BY <1>3, <2>1 DEF FlatTo
<1>5. CASE n = 0
  <2>1. FlattenSeq(ss) = ss /\ ss = <<>>
    BY <1>5 DEF FlattenSeq
  <2>2. <<>> \o s = s
    BY ConcatEmptySeq
  <2> QED
    BY <1>1, <1>3, <1>4, <1>5, <2>1, <2>2 DEF tt
<1>6. CASE n # 0
  <2>1. n + 1 # 1 /\ (n + 1) - 1 = n /\ n \in 1..n /\ n <= n + 1 /\ n + 1 \in Nat
    BY <1>1, <1>6
  <2>2. FlatTo(G, ss, n) /\ FlattenSeq(ss) = G[n]
    BY <1>6, FlatType, FlatIs
  <2> HIDE DEF G, n
  <2>3. G[n] = H[n]
    <3>0. /\ n \in Nat /\ n + 1 \in Nat /\ n <= n + 1 /\ \A i \in 1..n : ss[i] = tt[i]
          /\ FlatTo(G, ss, n) /\ FlatTo(H, tt, n + 1)
      BY <1>1, <1>3, <2>1, <2>2
    <3>1. \A i \in 1..n : G[i] = H[i]
      BY ONLY <3>0, FlatUnique
    <3> QED
      BY <2>1, <3>1
  <2> QED
    BY <1>1, <1>3, <1>4, <2>1, <2>2, <2>3 DEF tt
<1> QED
  BY <1>5, <1>6

----------------------------------------------------------------------------
(* Induction over sequences, stated of sets of sequences *)

LEMMA SeqInduction ==
    ASSUME NEW S, NEW T \in SUBSET Seq(S), <<>> \in T, \A s \in T, e \in S : Append(s, e) \in T
    PROVE  \A s \in Seq(S) : s \in T
<1> DEFINE M == {n \in Nat : \A s \in Seq(S) : Len(s) = n => s \in T}
<1>1. 0 \in M
  <2>1. \A s \in Seq(S) : Len(s) = 0 => s = <<>>
    OBVIOUS
  <2> QED
    BY <2>1
<1>2. ASSUME NEW n \in M PROVE n + 1 \in M
  <2> SUFFICES ASSUME NEW s \in Seq(S), Len(s) = n + 1 PROVE s \in T
    OBVIOUS
  <2>1. n \in Nat /\ \A t \in Seq(S) : Len(t) = n => t \in T
    OBVIOUS
  <2>2. s # <<>>
    BY <2>1
  <2>3. PICK t \in Seq(S), e \in S : s = Append(t, e)
    BY <2>2, SequenceEmptyOrAppend
  <2>4. Len(t) = n
    <3>1. Len(s) = Len(t) + 1 /\ Len(t) \in Nat
      BY <2>3
    <3> QED
      BY <2>1, <3>1
  <2> QED
    BY <2>1, <2>3, <2>4
<1>3. M \in SUBSET Nat
  OBVIOUS
<1> HIDE DEF M
<1>4. \A n \in Nat : n \in M
  BY <1>1, <1>2, <1>3, SetInduction
<1>5. \A s \in Seq(S) : Len(s) \in Nat
  OBVIOUS
<1> QED
  BY <1>4, <1>5 DEF M

LEMMA ConcatAppend ==
    ASSUME NEW S, NEW s \in Seq(S), NEW t \in Seq(S), NEW e \in S
    PROVE  s \o Append(t, e) = Append(s \o t, e)
<1>1. <<e>> \in Seq(S) /\ s \o t \in Seq(S)
  BY ConcatProperties
<1>2. Append(t, e) = t \o <<e>> /\ Append(s \o t, e) = (s \o t) \o <<e>>
  BY <1>1, AppendIsConcat
<1> QED
  BY <1>1, <1>2, ConcatAssociative

\* Associativity as a predicate, for proofs that hide what \o is.
Assoc(r, s, t) == (r \o s) \o t = r \o (s \o t)

LEMMA Associative ==
    ASSUME NEW S, NEW r \in Seq(S), NEW s \in Seq(S), NEW t \in Seq(S)
    PROVE  Assoc(r, s, t)
  BY DEF Assoc

LEMMA FlatConcat ==
    ASSUME NEW S, NEW ss \in Seq(Seq(S))
    PROVE  \A tt \in Seq(Seq(S)) : FlattenSeq(ss \o tt) = FlattenSeq(ss) \o FlattenSeq(tt)
<1> DEFINE Q == Seq(S)
           T == {tt \in Seq(Q) : FlattenSeq(ss \o tt) = FlattenSeq(ss) \o FlattenSeq(tt)}
<1>1. <<>> \in T
  <2>1. <<>> \in Seq(Q) /\ FlattenSeq(<<>>) = <<>> /\ Len(<<>>) = 0
    BY DEF FlattenSeq
  <2>2. ss \o <<>> = ss
    BY ConcatEmptySeq
  <2>3. FlattenSeq(ss) \o <<>> = FlattenSeq(ss)
    BY FlatType, ConcatEmptySeq
  <2> QED
    BY <2>1, <2>2, <2>3
<1>2. ASSUME NEW tt \in T, NEW e \in Q PROVE Append(tt, e) \in T
  <2>1. tt \in Seq(Q) /\ FlattenSeq(ss \o tt) = FlattenSeq(ss) \o FlattenSeq(tt)
    OBVIOUS
  <2>2. Append(tt, e) \in Seq(Q)
    BY <2>1, AppendProperties
  <2>3. ss \o Append(tt, e) = Append(ss \o tt, e) /\ ss \o tt \in Seq(Q)
    BY <2>1, ConcatAppend, ConcatProperties
  <2>4. FlattenSeq(Append(ss \o tt, e)) = FlattenSeq(ss \o tt) \o e
    BY <2>3, FlatAppend
  <2>5. FlattenSeq(Append(tt, e)) = FlattenSeq(tt) \o e
    BY <2>1, FlatAppend
  <2>6. FlattenSeq(ss) \in Seq(S) /\ FlattenSeq(tt) \in Seq(S)
    BY <2>1, FlatType
  <2>7. (FlattenSeq(ss) \o FlattenSeq(tt)) \o e = FlattenSeq(ss) \o (FlattenSeq(tt) \o e)
    <3>1. e \in Seq(S)
      OBVIOUS
    <3>2. Assoc(FlattenSeq(ss), FlattenSeq(tt), e)
      BY ONLY <2>6, <3>1, Associative
    <3> QED
      BY ONLY <3>2 DEF Assoc
  <2> QED
    BY <2>1, <2>2, <2>3, <2>4, <2>5, <2>7
<1>3. T \in SUBSET Seq(Q)
  OBVIOUS
<1> HIDE DEF T
<1>4. \A tt \in Seq(Q) : tt \in T
  BY <1>1, <1>2, <1>3, SeqInduction
<1> QED
  BY <1>4 DEF T

LEMMA HeadThenTail ==
    ASSUME NEW S, NEW s \in Seq(S), s # <<>>
    PROVE  s = <<Head(s)>> \o Tail(s) /\ Head(s) \in S /\ Tail(s) \in Seq(S)
<1> DEFINE h == Head(s)
           t == Tail(s)
           x == <<h>> \o t
<1>1. h \in S /\ t \in Seq(S)
  BY HeadTailProperties
<1>2. <<h>> \in Seq(S)
  BY <1>1
<1>3. /\ x \in Seq(S) /\ Len(x) = Len(<<h>>) + Len(t)
      /\ \A i \in 1..(Len(<<h>>) + Len(t)) : x[i] = IF i <= Len(<<h>>) THEN <<h>>[i] ELSE t[i - Len(<<h>>)]
  BY <1>1, <1>2, ConcatProperties
<1>4. /\ Len(<<h>>) = 1 /\ <<h>>[1] = h /\ Len(s) \in Nat /\ Len(s) >= 1
      /\ Len(t) = Len(s) - 1 /\ \A i \in 1..(Len(s) - 1) : t[i] = s[i + 1]
      /\ h = s[1]
  BY EmptyLen
<1>5. Len(s) = Len(x)
  BY <1>3, <1>4
<1>6. ASSUME NEW i \in 1..Len(s) PROVE s[i] = x[i]
  <2>1. i \in 1..(Len(<<h>>) + Len(t))
    BY <1>4
  <2>2. CASE i = 1
    BY <1>3, <1>4, <2>1, <2>2
  <2>3. CASE i # 1
    <3>1. ~(i <= 1) /\ i - 1 \in 1..(Len(s) - 1) /\ (i - 1) + 1 = i
      BY <1>4, <2>3
    <3> QED
      BY <1>3, <1>4, <2>1, <3>1
  <2> QED
    BY <2>2, <2>3
<1> QED
  BY <1>1, <1>3, <1>5, <1>6, SeqEqual

\* The first sequence, then the others.
LEMMA FlatHead ==
    ASSUME NEW S, NEW ss \in Seq(Seq(S)), ss # <<>>
    PROVE  FlattenSeq(ss) = Head(ss) \o FlattenSeq(Tail(ss))
<1> DEFINE Q == Seq(S)
           h == Head(ss)
           t == Tail(ss)
<1>1. h \in Q /\ t \in Seq(Q)
  BY HeadTailProperties
<1>2. <<h>> \in Seq(Q) /\ <<h>> = Append(<<>>, h) /\ <<>> \in Seq(Q)
  BY <1>1
<1>3. ss = <<h>> \o t
  BY HeadThenTail
<1>4. FlattenSeq(<<h>>) = h
  <2>1. FlattenSeq(<<>>) = <<>>
    BY DEF FlattenSeq
  <2>2. FlattenSeq(Append(<<>>, h)) = FlattenSeq(<<>>) \o h
    BY <1>1, <1>2, FlatAppend
  <2>3. <<>> \o h = h
    BY <1>1, ConcatEmptySeq
  <2> QED
    BY <1>2, <2>1, <2>2, <2>3
<1>5. FlattenSeq(<<h>> \o t) = FlattenSeq(<<h>>) \o FlattenSeq(t)
  BY <1>1, <1>2, FlatConcat
<1> QED
  BY <1>3, <1>4, <1>5

----------------------------------------------------------------------------
(* The events of a batch that belong to a queue, event by event *)

LaneTo(g, p, q, b, n) ==
    g = [i \in 0..n |-> IF i = 0 THEN <<>>
                        ELSE IF p[b[i]] = q THEN Append(g[i - 1], b[i]) ELSE g[i - 1]]

LaneOf(p, b, q) == (CHOOSE g : LaneTo(g, p, q, b, Len(b)))[Len(b)]

LEMMA LaneExists ==
    ASSUME NEW S, NEW p, NEW q, NEW b \in Seq(S)
    PROVE  \A n \in Nat : n <= Len(b) =>
              \E g : LaneTo(g, p, q, b, n) /\ \A i \in 0..n : g[i] \in Seq(S)
<1> DEFINE Ok(n) == \E g : LaneTo(g, p, q, b, n) /\ \A i \in 0..n : g[i] \in Seq(S)
           T == {n \in Nat : n <= Len(b) => Ok(n)}
<1>0. Len(b) \in Nat /\ \A i \in 1..Len(b) : b[i] \in S
  OBVIOUS
<1>1. 0 \in T
  <2> DEFINE g == [i \in 0..0 |-> <<>>]
  <2>1. <<>> \in Seq(S)
    OBVIOUS
  <2>2. \A i \in 0..0 : i = 0
    OBVIOUS
  <2>3. /\ g = [i \in 0..0 |-> IF i = 0 THEN <<>>
                  ELSE IF p[b[i]] = q THEN Append(g[i - 1], b[i]) ELSE g[i - 1]]
        /\ \A i \in 0..0 : g[i] \in Seq(S)
    BY <2>1, <2>2
  <2> QED
    BY <2>3 DEF LaneTo
<1>2. ASSUME NEW n \in T PROVE n + 1 \in T
  <2> DEFINE k == n + 1
  <2>1. SUFFICES ASSUME k <= Len(b) PROVE Ok(k)
    OBVIOUS
  <2>2. n \in Nat /\ n <= Len(b) /\ k \in 1..Len(b) /\ k - 1 = n /\ k # 0
    BY <1>0, <2>1
  <2>3. PICK g : LaneTo(g, p, q, b, n) /\ \A i \in 0..n : g[i] \in Seq(S)
    BY <2>2
  <2> DEFINE x == IF p[b[k]] = q THEN Append(g[n], b[k]) ELSE g[n]
             h == [i \in 0..k |-> IF i = k THEN x ELSE g[i]]
  <2>4. \A i \in 0..n : g[i] = IF i = 0 THEN <<>>
              ELSE IF p[b[i]] = q THEN Append(g[i - 1], b[i]) ELSE g[i - 1]
    BY <2>3 DEF LaneTo
  <2>5. x \in Seq(S)
    <3>1. g[n] \in Seq(S) /\ b[k] \in S
      BY <1>0, <2>2, <2>3
    <3>2. Append(g[n], b[k]) \in Seq(S)
      BY <3>1, AppendProperties
    <3> QED
      BY <3>1, <3>2
  <2>6. h[k] = x /\ \A i \in 0..n : h[i] = g[i] /\ i # k
    BY <2>2
  <2> HIDE DEF k
  <2>7. ASSUME NEW i \in 0..k
        PROVE  /\ h[i] = IF i = 0 THEN <<>>
                         ELSE IF p[b[i]] = q THEN Append(h[i - 1], b[i]) ELSE h[i - 1]
               /\ h[i] \in Seq(S)
    <3>1. CASE i = k
      <4>1. i # 0 /\ i - 1 = n /\ h[n] = g[n]
        BY <2>2, <2>6, <3>1
      <4> QED
        BY <2>5, <2>6, <3>1, <4>1
    <3>2. CASE i # k
      <4>1. i \in 0..n /\ (i # 0 => i - 1 \in 0..n)
        BY <2>2, <3>2
      <4>2. h[i] = g[i] /\ (i # 0 => h[i - 1] = g[i - 1])
        BY <2>6, <4>1
      <4> HIDE DEF h
      <4> QED
        BY <2>3, <2>4, <4>1, <4>2
    <3> QED
      BY <3>1, <3>2
  <2>8. LaneTo(h, p, q, b, k)
    <3> DEFINE d == [i \in 0..k |-> IF i = 0 THEN <<>>
                       ELSE IF p[b[i]] = q THEN Append(h[i - 1], b[i]) ELSE h[i - 1]]
    <3>1. h = d
      BY <2>7
    <3> QED
      BY <3>1 DEF LaneTo
  <2> HIDE DEF h
  <2> QED
    BY <2>7, <2>8
<1>3. T \in SUBSET Nat
  OBVIOUS
<1> HIDE DEF T
<1>4. \A n \in Nat : n \in T
  BY <1>1, <1>2, <1>3, SetInduction
<1> QED
  BY <1>4 DEF T

LEMMA LaneUnique ==
    ASSUME NEW n \in Nat, NEW m \in Nat, n <= m, NEW g, NEW h, NEW b, NEW c, NEW p, NEW q,
           LaneTo(g, p, q, b, n), LaneTo(h, p, q, c, m), \A i \in 1..n : b[i] = c[i]
    PROVE  \A i \in 0..n : g[i] = h[i]
<1> DEFINE T == {k \in Nat : k <= n => g[k] = h[k]}
<1>1. \A i \in 0..n : g[i] = IF i = 0 THEN <<>>
            ELSE IF p[b[i]] = q THEN Append(g[i - 1], b[i]) ELSE g[i - 1]
  BY DEF LaneTo
<1>2. \A i \in 0..m : h[i] = IF i = 0 THEN <<>>
            ELSE IF p[c[i]] = q THEN Append(h[i - 1], c[i]) ELSE h[i - 1]
  BY DEF LaneTo
<1>3. 0 \in T
  <2>1. 0 \in 0..n /\ 0 \in 0..m
    OBVIOUS
  <2> QED
    BY <1>1, <1>2, <2>1
<1>4. ASSUME NEW k \in T PROVE k + 1 \in T
  <2> DEFINE j == k + 1
  <2> SUFFICES ASSUME j <= n PROVE g[j] = h[j]
    OBVIOUS
  <2>1. k \in Nat /\ j \in 0..n /\ j \in 0..m /\ j \in 1..n /\ j # 0 /\ j - 1 = k /\ k <= n
    OBVIOUS
  <2>2. g[k] = h[k] /\ b[j] = c[j]
    BY <2>1
  <2> HIDE DEF j
  <2> QED
    BY <1>1, <1>2, <2>1, <2>2
<1>5. T \in SUBSET Nat
  OBVIOUS
<1> HIDE DEF T
<1>6. \A k \in Nat : k \in T
  BY <1>3, <1>4, <1>5, SetInduction
<1>7. \A i \in 0..n : i \in Nat /\ i <= n
  OBVIOUS
<1> QED
  BY <1>6, <1>7 DEF T

LEMMA LaneType ==
    ASSUME NEW S, NEW p, NEW q, NEW b \in Seq(S)
    PROVE  /\ LaneOf(p, b, q) \in Seq(S)
           /\ LaneTo(CHOOSE g : LaneTo(g, p, q, b, Len(b)), p, q, b, Len(b))
<1> DEFINE n == Len(b)
           G == CHOOSE g : LaneTo(g, p, q, b, n)
<1>1. n \in Nat /\ n <= n /\ n \in 0..n
  OBVIOUS
<1>2. PICK g : LaneTo(g, p, q, b, n) /\ \A i \in 0..n : g[i] \in Seq(S)
  BY <1>1, LaneExists
<1>3. LaneTo(G, p, q, b, n) /\ LaneOf(p, b, q) = G[n]
  BY <1>2 DEF LaneOf
<1> HIDE DEF G
<1>4. G[n] = g[n]
  BY <1>1, <1>2, <1>3, LaneUnique
<1> QED
  BY <1>1, <1>2, <1>3, <1>4 DEF G

LEMMA LaneEmpty == ASSUME NEW p, NEW q PROVE LaneOf(p, <<>>, q) = <<>>
<1> DEFINE b == <<>>
           G == CHOOSE g : LaneTo(g, p, q, b, Len(b))
<1>1. b \in Seq({}) /\ Len(b) = 0
  OBVIOUS
<1>2. LaneTo(G, p, q, b, 0)
  BY <1>1, LaneType
<1>3. LaneOf(p, b, q) = G[0]
  BY <1>1 DEF LaneOf
<1> HIDE DEF G, b
<1>4. 0 \in 0..0
  OBVIOUS
<1>5. G[0] = <<>>
  BY <1>2, <1>4 DEF LaneTo
<1> QED
  BY <1>3, <1>5 DEF b

\* One event more.
LEMMA LaneAppend ==
    ASSUME NEW S, NEW p, NEW q, NEW b \in Seq(S), NEW e \in S
    PROVE  LaneOf(p, Append(b, e), q)
             = IF p[e] = q THEN Append(LaneOf(p, b, q), e) ELSE LaneOf(p, b, q)
<1> DEFINE c == Append(b, e)
           n == Len(b)
           G == CHOOSE g : LaneTo(g, p, q, b, n)
           H == CHOOSE g : LaneTo(g, p, q, c, Len(c))
<1>1. /\ c \in Seq(S) /\ Len(c) = n + 1 /\ n \in Nat /\ c[n + 1] = e
      /\ \A i \in 1..n : b[i] = c[i]
  OBVIOUS
<1> HIDE DEF c
<1>2. LaneTo(H, p, q, c, n + 1) /\ LaneOf(p, c, q) = H[n + 1]
  BY <1>1, LaneType DEF LaneOf
<1>3. LaneTo(G, p, q, b, n) /\ LaneOf(p, b, q) = G[n]
  BY LaneType DEF LaneOf
<1> HIDE DEF G, H, n
<1>4. n + 1 \in Nat /\ n <= n + 1 /\ n \in 0..n /\ n + 1 \in 0..(n + 1) /\ n + 1 # 0
      /\ (n + 1) - 1 = n
  BY <1>1
<1>5. G[n] = H[n]
  <2>0. /\ n \in Nat /\ n + 1 \in Nat /\ n <= n + 1 /\ \A i \in 1..n : b[i] = c[i]
        /\ LaneTo(G, p, q, b, n) /\ LaneTo(H, p, q, c, n + 1)
    BY <1>1, <1>2, <1>3, <1>4
  <2>1. \A i \in 0..n : G[i] = H[i]
    BY ONLY <2>0, LaneUnique
  <2> QED
    BY <1>4, <2>1
<1>6. H[n + 1] = IF p[c[n + 1]] = q THEN Append(H[(n + 1) - 1], c[n + 1]) ELSE H[(n + 1) - 1]
  BY <1>2, <1>4 DEF LaneTo
<1>7. H[n + 1] = IF p[e] = q THEN Append(G[n], e) ELSE G[n]
  BY <1>1, <1>4, <1>5, <1>6
<1> QED
  BY <1>2, <1>3, <1>7 DEF c

LEMMA LaneConcat ==
    ASSUME NEW S, NEW p, NEW q, NEW s \in Seq(S)
    PROVE  \A t \in Seq(S) : LaneOf(p, s \o t, q) = LaneOf(p, s, q) \o LaneOf(p, t, q)
<1> DEFINE L(b) == LaneOf(p, b, q)
           T == {t \in Seq(S) : L(s \o t) = L(s) \o L(t)}
<1>0. \A b \in Seq(S) : L(b) \in Seq(S)
  BY LaneType
<1>a. \A b \in Seq(S), e \in S : L(Append(b, e)) = IF p[e] = q THEN Append(L(b), e) ELSE L(b)
  BY LaneAppend
<1>b. L(<<>>) = <<>>
  BY LaneEmpty
<1> HIDE DEF L
<1>1. <<>> \in T
  <2>1. <<>> \in Seq(S) /\ s \o <<>> = s /\ L(s) \o <<>> = L(s)
    BY <1>0, ConcatEmptySeq
  <2> QED
    BY <1>b, <2>1
<1>2. ASSUME NEW t \in T, NEW e \in S PROVE Append(t, e) \in T
  <2>1. t \in Seq(S) /\ L(s \o t) = L(s) \o L(t)
    OBVIOUS
  <2>2. Append(t, e) \in Seq(S) /\ s \o t \in Seq(S) /\ L(s) \in Seq(S) /\ L(t) \in Seq(S)
    BY <1>0, <2>1, AppendProperties, ConcatProperties
  <2>3. s \o Append(t, e) = Append(s \o t, e) /\ L(s) \o Append(L(t), e) = Append(L(s) \o L(t), e)
    <3> DEFINE x == L(s)
               y == L(t)
    <3>1. s \o Append(t, e) = Append(s \o t, e)
      BY <2>1, ConcatAppend
    <3>2. x \in Seq(S) /\ y \in Seq(S) /\ e \in S
      BY <2>2
    <3> HIDE DEF x, y
    <3>3. x \o Append(y, e) = Append(x \o y, e)
      BY ONLY <3>2, ConcatAppend
    <3> QED
      BY <3>1, <3>3 DEF x, y
  <2>4. CASE p[e] = q
    BY <1>a, <2>1, <2>2, <2>3, <2>4
  <2>5. CASE p[e] # q
    BY <1>a, <2>1, <2>2, <2>3, <2>5
  <2> QED
    BY <2>4, <2>5
<1>3. T \in SUBSET Seq(S)
  OBVIOUS
<1> HIDE DEF T
<1>4. \A t \in Seq(S) : t \in T
  BY <1>1, <1>2, <1>3, SeqInduction
<1> QED
  BY <1>4 DEF T, L

LaneSplit(p, q, s, t) == LaneOf(p, s \o t, q) = LaneOf(p, s, q) \o LaneOf(p, t, q)

LEMMA LaneSplits ==
    ASSUME NEW S, NEW p, NEW q, NEW s \in Seq(S), NEW t \in Seq(S)
    PROVE  LaneSplit(p, q, s, t)
<1>1. LaneOf(p, s \o t, q) = LaneOf(p, s, q) \o LaneOf(p, t, q)
  BY LaneConcat
<1> QED
  BY ONLY <1>1 DEF LaneSplit

----------------------------------------------------------------------------
(* The dispatcher implements Router *)

\* Run waits for input, and flushes everything, with no event of a batch left to
\* stage; otherwise Receive would overwrite events.
Idle == pc \in {"select", "flushAll"} => cur = <<>>

LEMMA StepIdle == Inv /\ Idle /\ [Next]_vars => Idle'
  BY DEF Inv, Typed, Idle, Next, RunStep, vars, SourceSends, SourceCloses, Cancel,
         PublisherReceives, Receive, ReceiveClosed, Tick, CtxDone, Route, Routed, Flush,
         FlushAll

\* What is owed on queue q, of the state as a parameter.
OwedOf(p, qs, st, c, i, q) ==
    (FlattenSeq(qs[q]) \o st[q]) \o LaneOf(p, c \o FlattenSeq(i), q)

LEMMA OwedIs == \A q \in Queue : Owed(q) = OwedOf(pick, queue, staging, cur, in, q)
  BY DEF Owed, OwedOf, Lane, LaneOf, LaneTo

LEMMA OwedIsNext ==
    \A q \in Queue : Owed(q)' = OwedOf(pick', queue', staging', cur', in', q)
  BY DEF Owed, OwedOf, Lane, LaneOf, LaneTo

LEMMA RouterLane == ASSUME NEW b PROVE \A q : R!Lane(b, q) = LaneOf(pick, b, q)
  BY DEF R!Lane, LaneOf, LaneTo

\* A batch sent is owed behind what is owed already.
OwedBehind(p, f, c, i, b, q) ==
    f \o LaneOf(p, c \o FlattenSeq(Append(i, b)), q)
      = (f \o LaneOf(p, c \o FlattenSeq(i), q)) \o LaneOf(p, b, q)

LEMMA OwedSend ==
    ASSUME NEW p, NEW q, NEW f \in Seq(Event), NEW c \in Seq(Event),
           NEW i \in Seq(Seq(Event)), NEW b \in Seq(Event)
    PROVE  OwedBehind(p, f, c, i, b, q)
<1> DEFINE F == FlattenSeq(i)
           u == c \o F
           K == LaneOf(p, u, q)
           L == LaneOf(p, b, q)
<1>1. FlattenSeq(Append(i, b)) = F \o b /\ F \in Seq(Event)
  BY FlatAppend, FlatType
<1>2. f \in Seq(Event) /\ c \in Seq(Event) /\ b \in Seq(Event)
  OBVIOUS
<1>3. c \o (F \o b) = u \o b /\ u \in Seq(Event)
  <2>1. F \in Seq(Event)
    BY ONLY <1>1
  <2> HIDE DEF F
  <2>2. Assoc(c, F, b)
    BY ONLY <1>2, <2>1, Associative
  <2>3. c \o F \in Seq(Event)
    BY ONLY <1>2, <2>1, ConcatProperties
  <2> QED
    BY ONLY <2>2, <2>3 DEF Assoc
<1>4. LaneOf(p, u \o b, q) = K \o L
  <2>1. u \in Seq(Event) /\ b \in Seq(Event)
    BY ONLY <1>2, <1>3
  <2> HIDE DEF u
  <2>2. LaneSplit(p, q, u, b)
    BY ONLY <2>1, LaneSplits
  <2> QED
    BY ONLY <2>2 DEF LaneSplit
<1>5. f \o (K \o L) = (f \o K) \o L
  <2>1. f \in Seq(Event) /\ K \in Seq(Event) /\ L \in Seq(Event)
    BY <1>2, <1>3, LaneType
  <2> HIDE DEF K, L
  <2>2. Assoc(f, K, L)
    BY ONLY <2>1, Associative
  <2> QED
    BY ONLY <2>2 DEF Assoc
<1>6. c \o FlattenSeq(Append(i, b)) = u \o b
  BY ONLY <1>1, <1>3
<1> QED
  BY <1>4, <1>5, <1>6 DEF OwedBehind

\* The types the lemmas on sequences ask for.
LEMMA OwedTypes ==
    ASSUME Inv
    PROVE  /\ in \in Seq(Seq(Event)) /\ cur \in Seq(Event) /\ FlattenSeq(in) \in Seq(Event)
           /\ cur \o FlattenSeq(in) \in Seq(Event)
           /\ \A q \in Queue :
                /\ queue[q] \in Seq(Seq(Event)) /\ staging[q] \in Seq(Event)
                /\ FlattenSeq(queue[q]) \in Seq(Event)
                /\ FlattenSeq(queue[q]) \o staging[q] \in Seq(Event)
                /\ LaneOf(pick, cur \o FlattenSeq(in), q) \in Seq(Event)
<1>1. /\ in \in Seq(Seq(Event)) /\ cur \in Seq(Event)
      /\ \A q \in Queue : queue[q] \in Seq(Seq(Event)) /\ staging[q] \in Seq(Event)
  BY DEF Inv, Typed
<1>2. FlattenSeq(in) \in Seq(Event) /\ \A q \in Queue : FlattenSeq(queue[q]) \in Seq(Event)
  BY <1>1, FlatType
<1>3. /\ cur \o FlattenSeq(in) \in Seq(Event)
      /\ \A q \in Queue : FlattenSeq(queue[q]) \o staging[q] \in Seq(Event)
  BY <1>1, <1>2, ConcatProperties
<1>4. \A q \in Queue : LaneOf(pick, cur \o FlattenSeq(in), q) \in Seq(Event)
  BY <1>3, LaneType
<1> QED
  BY <1>1, <1>2, <1>3, <1>4

LEMMA SendImplements == ASSUME Inv, NEW b \in Batch, SourceSends(b) PROVE R!Send(b)
<1>1. b \in Seq(Event)
  BY DEF Batch
<1>2. in' = Append(in, b) /\ UNCHANGED <<pick, receives, cur, staging, queue>>
  BY DEF SourceSends
<1>3. ASSUME NEW q \in Queue PROVE Owed(q)' = Owed(q) \o R!Lane(b, q)
  <2>1. Owed(q)' = OwedOf(pick, queue, staging, cur, Append(in, b), q)
    BY <1>2, OwedIsNext
  <2>2. Owed(q) = OwedOf(pick, queue, staging, cur, in, q)
    BY OwedIs
  <2>3. R!Lane(b, q) = LaneOf(pick, b, q)
    BY RouterLane
  <2>4. OwedOf(pick, queue, staging, cur, Append(in, b), q)
          = OwedOf(pick, queue, staging, cur, in, q) \o LaneOf(pick, b, q)
    <3> DEFINE f == FlattenSeq(queue[q]) \o staging[q]
    <3>1. f \in Seq(Event) /\ cur \in Seq(Event) /\ in \in Seq(Seq(Event)) /\ b \in Seq(Event)
      BY <1>1, OwedTypes
    <3> HIDE DEF f
    <3>2. OwedBehind(pick, f, cur, in, b, q)
      BY ONLY <3>1, OwedSend
    <3> QED
      BY <3>2 DEF OwedBehind, OwedOf, f
  <2> QED
    BY <2>1, <2>2, <2>3, <2>4
<1>4. [q \in Queue |-> Owed(q)]' = [q \in Queue |-> [p \in Queue |-> Owed(p)][q] \o R!Lane(b, q)]
  BY <1>3
<1> QED
  BY <1>2, <1>4 DEF R!Send

\* What is owed is what comes first, then the rest.
LEMMA DropFirst ==
    ASSUME NEW S, NEW h \in Seq(S), NEW x \in Seq(S)
    PROVE  Len(h) <= Len(h \o x) /\ SubSeq(h \o x, Len(h) + 1, Len(h \o x)) = x
<1> DEFINE y == h \o x
           n == Len(h)
           m == Len(x)
           z == SubSeq(y, n + 1, n + m)
<1>1. /\ y \in Seq(S) /\ Len(y) = n + m
      /\ \A i \in 1..(n + m) : y[i] = IF i <= n THEN h[i] ELSE x[i - n]
  BY ConcatProperties
<1>2. n \in Nat /\ m \in Nat
  OBVIOUS
<1> HIDE DEF y, n, m
<1>3. \A i \in 1..m : y[n + i] = x[i]
  <2> TAKE i \in 1..m
  <2>1. n + i \in 1..(n + m) /\ ~(n + i <= n) /\ (n + i) - n = i
    BY <1>2
  <2> QED
    BY <1>1, <2>1
<1>4. z \in Seq(S) /\ Len(z) = m /\ \A i \in 1..m : z[i] = y[n + i]
  <2>1. \A i \in (n + 1)..(n + m) : y[i] \in S
    <3>1. \A i \in 1..Len(y) : y[i] \in S
      BY <1>1
    <3> QED
      BY <1>1, <1>2, <3>1
  <2>2. n + 1 \in 1..(Len(y) + 1) /\ n + m \in n..Len(y)
    BY <1>1, <1>2
  <2>3. z = [i \in 1..((n + m) - (n + 1) + 1) |-> y[i + (n + 1) - 1]]
    BY <1>1, <1>2
  <2>4. (n + m) - (n + 1) + 1 = m /\ \A i \in 1..m : i + (n + 1) - 1 = n + i
    BY <1>2
  <2>5. z = [i \in 1..m |-> y[n + i]]
    BY <2>3, <2>4
  <2>6. \A i \in 1..m : y[n + i] \in S
    <3>1. \A i \in 1..m : n + i \in (n + 1)..(n + m)
      BY <1>2
    <3> QED
      BY <2>1, <3>1
  <2> HIDE DEF z
  <2> QED
    BY <1>2, <2>5, <2>6
<1>5. x \in Seq(S) /\ Len(x) = m
  BY DEF m
<1> HIDE DEF z
<1>6. z = x
  BY <1>3, <1>4, <1>5, SeqEqual
<1>7. n <= n + m
  BY <1>2
<1> QED
  BY <1>1, <1>6, <1>7 DEF y, z, n

HandsOut(h, f, s, l) ==
    LET owed == ((h \o f) \o s) \o l
    IN  Len(h) <= Len(owed) /\ SubSeq(owed, Len(h) + 1, Len(owed)) = (f \o s) \o l

LEMMA OwedHand ==
    ASSUME NEW S, NEW h \in Seq(S), NEW f \in Seq(S), NEW s \in Seq(S), NEW l \in Seq(S)
    PROVE  HandsOut(h, f, s, l)
<1> DEFINE x == f \o s
           y == x \o l
<1>1. h \in Seq(S) /\ f \in Seq(S) /\ s \in Seq(S) /\ l \in Seq(S)
  OBVIOUS
<1>2. x \in Seq(S) /\ Assoc(h, f, s)
  BY ONLY <1>1, ConcatProperties, Associative
<1>3. (h \o f) \o s = h \o x
  BY ONLY <1>2 DEF Assoc
<1>4. y \in Seq(S) /\ Assoc(h, x, l)
  <2> HIDE DEF x
  <2> QED
    BY ONLY <1>1, <1>2, ConcatProperties, Associative
<1>5. (h \o x) \o l = h \o y
  BY ONLY <1>4 DEF Assoc
<1>6. Len(h) <= Len(h \o y) /\ SubSeq(h \o y, Len(h) + 1, Len(h \o y)) = y
  <2> HIDE DEF y
  <2> QED
    BY ONLY <1>1, <1>4, DropFirst
<1>7. ((h \o f) \o s) \o l = h \o y
  BY ONLY <1>3, <1>5
<1> QED
  BY ONLY <1>6, <1>7 DEF HandsOut

LEMMA HandOverImplements ==
    ASSUME Inv, NEW q \in Queue, PublisherReceives(q)
    PROVE  \E n \in 1..FlushSize : R!HandOver(q, n)
<1> DEFINE ss == queue[q]
           h == Head(ss)
           f == FlattenSeq(Tail(ss))
           l == LaneOf(pick, cur \o FlattenSeq(in), q)
<1>1. /\ ss # <<>> /\ queue' = [queue EXCEPT ![q] = Tail(ss)] /\ receives' = 1 - receives
      /\ UNCHANGED <<pick, in, cur, staging>>
  BY DEF PublisherReceives
<1>2. ss \in Seq(Seq(Event)) /\ staging[q] \in Seq(Event) /\ l \in Seq(Event)
  BY OwedTypes
<1>3. h \in Seq(Event) /\ Tail(ss) \in Seq(Seq(Event)) /\ f \in Seq(Event)
  <2> HIDE DEF ss
  <2>1. h \in Seq(Event) /\ Tail(ss) \in Seq(Seq(Event))
    BY <1>1, <1>2, HeadTailProperties
  <2> QED
    BY <2>1, FlatType
<1>4. Len(h) \in 1..FlushSize
  <2>1. 1 \in DOMAIN ss
    <3> HIDE DEF ss
    <3> QED
      BY <1>1, <1>2, EmptyLen
  <2>2. Len(ss[1]) \in 1..FlushSize
    BY <2>1 DEF Inv, Queued
  <2> QED
    BY <2>2
<1>5. FlattenSeq(ss) = h \o f
  <2> HIDE DEF ss
  <2> QED
    BY <1>1, <1>2, FlatHead
<1>6. HandsOut(h, f, staging[q], l)
  <2> DEFINE s == staging[q]
  <2>1. h \in Seq(Event) /\ f \in Seq(Event) /\ s \in Seq(Event) /\ l \in Seq(Event)
    BY <1>2, <1>3
  <2> HIDE DEF h, f, s, l
  <2>2. HandsOut(h, f, s, l)
    BY ONLY <2>1, OwedHand
  <2> QED
    BY <2>2 DEF s
<1>7. Owed(q) = ((h \o f) \o staging[q]) \o l
  <2>1. Owed(q) = OwedOf(pick, queue, staging, cur, in, q)
    BY OwedIs
  <2> QED
    BY <1>5, <2>1 DEF OwedOf
<1>8. queue \in [Queue -> Seq(Seq(Event))]
  BY DEF Inv, Typed
<1>9. Owed(q)' = (f \o staging[q]) \o l
  <2>1. Owed(q)' = OwedOf(pick, queue', staging, cur, in, q)
    BY <1>1, OwedIsNext
  <2>2. queue'[q] = Tail(ss)
    BY <1>1, <1>8
  <2> QED
    BY <2>1, <2>2 DEF OwedOf
<1>10. ASSUME NEW p \in Queue, p # q PROVE Owed(p)' = Owed(p)
  <2>1. /\ Owed(p)' = OwedOf(pick, queue', staging, cur, in, p)
        /\ Owed(p) = OwedOf(pick, queue, staging, cur, in, p)
    BY <1>1, OwedIsNext, OwedIs
  <2>2. queue'[p] = queue[p]
    BY <1>1, <1>8, <1>10
  <2> QED
    BY <2>1, <2>2 DEF OwedOf
<1>11. Len(h) <= Len(Owed(q)) /\ Owed(q)' = SubSeq(Owed(q), Len(h) + 1, Len(Owed(q)))
  BY ONLY <1>6, <1>7, <1>9 DEF HandsOut
<1> HIDE DEF h
<1> DEFINE owed == [p \in Queue |-> Owed(p)]
<1>12. owed[q] = Owed(q)
  OBVIOUS
<1>13. owed' = [owed EXCEPT ![q] = SubSeq(owed[q], Len(h) + 1, Len(owed[q]))]
  <2>1. owed' = [p \in Queue |-> Owed(p)']
    OBVIOUS
  <2>2. \A p \in Queue : owed[p] = Owed(p)
    OBVIOUS
  <2>3. owed = [p \in Queue |-> owed[p]]
    OBVIOUS
  <2> DEFINE d == [owed EXCEPT ![q] = SubSeq(owed[q], Len(h) + 1, Len(owed[q]))]
  <2>4. d = [p \in Queue |-> IF p = q THEN SubSeq(owed[q], Len(h) + 1, Len(owed[q])) ELSE owed[p]]
    BY <2>3
  <2>5. \A p \in Queue : Owed(p)' = IF p = q THEN SubSeq(owed[q], Len(h) + 1, Len(owed[q]))
                                             ELSE owed[p]
    BY <1>10, <1>11, <2>2
  <2> HIDE DEF owed
  <2> QED
    BY <2>1, <2>4, <2>5
<1>14. R!HandOver(q, Len(h))
  BY <1>1, <1>11, <1>12, <1>13 DEF R!HandOver
<1> QED
  BY <1>4, <1>14

\* The other steps leave what is owed alone: an event moves from the input to the
\* batch, to its slice, to its queue, and never past another event of its queue.
Unmoved == pick' = pick /\ receives' = receives /\ \A q \in Queue : Owed(q)' = Owed(q)

LEMMA ReceiveImplements == ASSUME Inv, Idle, Receive PROVE Unmoved
<1> DEFINE h == Head(in)
           f == FlattenSeq(Tail(in))
<1>1. /\ in # <<>> /\ cur = <<>> /\ cur' = h /\ in' = Tail(in)
      /\ UNCHANGED <<pick, receives, staging, queue>>
  BY DEF Receive, Idle
<1>2. in \in Seq(Seq(Event)) /\ FlattenSeq(in) \in Seq(Event)
  BY OwedTypes
<1>3. FlattenSeq(in) = h \o f
  BY <1>1, <1>2, FlatHead
<1>4. cur \o FlattenSeq(in) = FlattenSeq(in)
  BY <1>1, <1>2, ConcatEmptySeq
<1>5. cur' \o FlattenSeq(in') = cur \o FlattenSeq(in)
  BY <1>1, <1>3, <1>4
<1>6. ASSUME NEW q \in Queue PROVE Owed(q)' = Owed(q)
  <2>1. /\ Owed(q)' = OwedOf(pick, queue, staging, cur', in', q)
        /\ Owed(q) = OwedOf(pick, queue, staging, cur, in, q)
    BY <1>1, OwedIsNext, OwedIs
  <2> QED
    BY <1>5, <2>1 DEF OwedOf
<1> QED
  BY <1>1, <1>6 DEF Unmoved

\* An event staged is the first of its lane, and of no other.
StagedFirst(p, e, f, s, y, q) ==
    (f \o s) \o LaneOf(p, <<e>> \o y, q)
      = (f \o (IF p[e] = q THEN Append(s, e) ELSE s)) \o LaneOf(p, y, q)

LEMMA OwedStage ==
    ASSUME NEW S, NEW p, NEW q, NEW e \in S, NEW f \in Seq(S), NEW s \in Seq(S), NEW y \in Seq(S)
    PROVE  StagedFirst(p, e, f, s, y, q)
<1> DEFINE o == <<e>>
           L == LaneOf(p, y, q)
           fs == f \o s
<1>1. o \in Seq(S) /\ f \in Seq(S) /\ s \in Seq(S) /\ y \in Seq(S)
  OBVIOUS
<1>2. L \in Seq(S) /\ fs \in Seq(S)
  BY <1>1, LaneType, ConcatProperties
<1>3. LaneOf(p, o, q) = IF p[e] = q THEN o ELSE <<>>
  <2>1. <<>> \in Seq(S) /\ o = Append(<<>>, e)
    OBVIOUS
  <2>2. LaneOf(p, Append(<<>>, e), q)
          = IF p[e] = q THEN Append(LaneOf(p, <<>>, q), e) ELSE LaneOf(p, <<>>, q)
    <3> DEFINE z == <<>>
    <3>1. z \in Seq(S) /\ e \in S
      BY <2>1
    <3> HIDE DEF z
    <3>2. LaneOf(p, Append(z, e), q)
            = IF p[e] = q THEN Append(LaneOf(p, z, q), e) ELSE LaneOf(p, z, q)
      BY ONLY <3>1, LaneAppend
    <3> QED
      BY <3>2 DEF z
  <2>3. LaneOf(p, <<>>, q) = <<>>
    BY LaneEmpty
  <2> QED
    BY <2>1, <2>2, <2>3
<1> HIDE DEF o
<1>4. LaneOf(p, o \o y, q) = LaneOf(p, o, q) \o L
  <2>1. LaneSplit(p, q, o, y)
    BY ONLY <1>1, LaneSplits
  <2> QED
    BY ONLY <2>1 DEF LaneSplit
<1> HIDE DEF L
<1>5. CASE p[e] = q
  <2>1. fs \o (o \o L) = (fs \o o) \o L
    <3>1. Assoc(fs, o, L)
      <4> HIDE DEF fs
      <4> QED
        BY ONLY <1>1, <1>2, Associative
    <3> QED
      BY ONLY <3>1 DEF Assoc
  <2>2. fs \o o = f \o (s \o o)
    <3>1. Assoc(f, s, o)
      BY ONLY <1>1, Associative
    <3> QED
      BY ONLY <3>1 DEF Assoc
  <2>3. s \o o = Append(s, e)
    BY <1>1, AppendIsConcat DEF o
  <2>4. LaneOf(p, o \o y, q) = o \o L
    BY <1>3, <1>4, <1>5
  <2>5. fs \o LaneOf(p, o \o y, q) = (f \o Append(s, e)) \o L
    BY ONLY <2>1, <2>2, <2>3, <2>4
  <2> QED
    BY <1>5, <2>5 DEF StagedFirst, o, L
<1>6. CASE p[e] # q
  <2>1. <<>> \o L = L
    BY <1>2, ConcatEmptySeq
  <2>2. LaneOf(p, o \o y, q) = L
    BY <1>3, <1>4, <1>6, <2>1
  <2> QED
    BY <1>6, <2>2 DEF StagedFirst, o, L
<1> QED
  BY <1>5, <1>6

LEMMA RouteImplements == ASSUME Inv, Route PROVE Unmoved
<1> DEFINE e == Head(cur)
           y == Tail(cur) \o FlattenSeq(in)
<1>1. /\ cur # <<>> /\ staging' = [staging EXCEPT ![pick[e]] = Append(staging[pick[e]], e)]
      /\ cur' = Tail(cur) /\ UNCHANGED <<pick, receives, in, queue>>
  BY DEF Route
<1>2. /\ cur \in Seq(Event) /\ FlattenSeq(in) \in Seq(Event)
      /\ staging \in [Queue -> Seq(Event)]
      /\ \A q \in Queue : staging[q] \in Seq(Event) /\ FlattenSeq(queue[q]) \in Seq(Event)
  BY OwedTypes DEF Inv, Typed
<1>3. cur = <<e>> \o Tail(cur) /\ e \in Event /\ Tail(cur) \in Seq(Event)
  BY <1>1, <1>2, HeadThenTail
<1>4. cur \o FlattenSeq(in) = <<e>> \o y /\ y \in Seq(Event)
  <2> DEFINE o == <<e>>
             t == Tail(cur)
             f == FlattenSeq(in)
  <2>1. o \in Seq(Event) /\ t \in Seq(Event) /\ f \in Seq(Event) /\ cur = o \o t
    BY <1>2, <1>3
  <2> HIDE DEF o, t, f
  <2>2. Assoc(o, t, f) /\ t \o f \in Seq(Event)
    BY ONLY <2>1, Associative, ConcatProperties
  <2>3. (o \o t) \o f = o \o (t \o f)
    BY ONLY <2>2 DEF Assoc
  <2> QED
    BY <2>1, <2>2, <2>3 DEF o, t, f
<1>5. ASSUME NEW q \in Queue PROVE Owed(q)' = Owed(q)
  <2> DEFINE f == FlattenSeq(queue[q])
             s == staging[q]
  <2>1. Owed(q) = (f \o s) \o LaneOf(pick, <<e>> \o y, q)
    <3>1. Owed(q) = OwedOf(pick, queue, staging, cur, in, q)
      BY OwedIs
    <3> HIDE DEF e, y
    <3> QED
      BY <1>4, <3>1 DEF OwedOf
  <2>2. staging'[q] = IF pick[e] = q THEN Append(s, e) ELSE s
    BY <1>1, <1>2
  <2>3. Owed(q)' = (f \o (IF pick[e] = q THEN Append(s, e) ELSE s)) \o LaneOf(pick, y, q)
    <3>1. Owed(q)' = OwedOf(pick, queue, staging', Tail(cur), in, q)
      BY <1>1, OwedIsNext
    <3> QED
      BY <2>2, <3>1 DEF OwedOf
  <2>4. StagedFirst(pick, e, f, s, y, q)
    <3>1. e \in Event /\ f \in Seq(Event) /\ s \in Seq(Event) /\ y \in Seq(Event)
      BY <1>2, <1>3, <1>4
    <3> HIDE DEF e, f, s, y
    <3> QED
      BY ONLY <3>1, OwedStage
  <2> HIDE DEF e, f, s, y
  <2> QED
    BY ONLY <2>1, <2>3, <2>4 DEF StagedFirst
<1> QED
  BY <1>1, <1>5 DEF Unmoved

\* A slice sent moves from behind its queue to its end.
LEMMA OwedFlush ==
    ASSUME NEW S, NEW ss \in Seq(Seq(S)), NEW s \in Seq(S)
    PROVE  FlattenSeq(Append(ss, s)) \o <<>> = FlattenSeq(ss) \o s
<1>1. FlattenSeq(Append(ss, s)) = FlattenSeq(ss) \o s
  BY FlatAppend
<1>2. FlattenSeq(ss) \o s \in Seq(S)
  BY FlatType, ConcatProperties
<1>3. (FlattenSeq(ss) \o s) \o <<>> = FlattenSeq(ss) \o s
  BY <1>2, ConcatEmptySeq
<1> QED
  BY <1>1, <1>3

LEMMA SendStagedImplements ==
    ASSUME Inv, NEW q \in Queue, SendStaged(q), UNCHANGED <<pick, receives, cur, in>>
    PROVE  Unmoved
<1> DEFINE ss == queue[q]
           s == staging[q]
<1>1. queue' = [queue EXCEPT ![q] = Append(ss, s)] /\ staging' = [staging EXCEPT ![q] = <<>>]
  BY DEF SendStaged
<1>2. /\ staging \in [Queue -> Seq(Event)] /\ queue \in [Queue -> Seq(Seq(Event))]
  BY DEF Inv, Typed
<1>3. /\ queue'[q] = Append(ss, s) /\ staging'[q] = <<>>
      /\ \A p \in Queue : p # q => queue'[p] = queue[p] /\ staging'[p] = staging[p]
  BY <1>1, <1>2
<1>4. FlattenSeq(Append(ss, s)) \o <<>> = FlattenSeq(ss) \o s
  <2>1. ss \in Seq(Seq(Event)) /\ s \in Seq(Event)
    BY <1>2
  <2> HIDE DEF ss, s
  <2> QED
    BY ONLY <2>1, OwedFlush
<1>5. ASSUME NEW p \in Queue PROVE Owed(p)' = Owed(p)
  <2>1. /\ Owed(p)' = OwedOf(pick, queue', staging', cur, in, p)
        /\ Owed(p) = OwedOf(pick, queue, staging, cur, in, p)
    BY OwedIsNext, OwedIs
  <2>2. FlattenSeq(queue'[p]) \o staging'[p] = FlattenSeq(queue[p]) \o staging[p]
    BY <1>3, <1>4
  <2> QED
    BY <2>1, <2>2 DEF OwedOf
<1> QED
  BY <1>5 DEF Unmoved

LEMMA SameImplements ==
    ASSUME UNCHANGED <<pick, receives, cur, in, staging, queue>> PROVE Unmoved
<1>1. ASSUME NEW q \in Queue PROVE Owed(q)' = Owed(q)
  BY OwedIsNext, OwedIs
<1> QED
  BY <1>1 DEF Unmoved

LEMMA FlushImplements == ASSUME Inv, Flush \/ FlushAll PROVE Unmoved
<1>1. idx \in Queue /\ UNCHANGED <<pick, receives, cur, in>>
  BY DEF Inv, Typed, Flush, FlushAll
<1>2. SendStaged(idx) \/ UNCHANGED <<staging, queue>>
  BY DEF Flush, FlushAll
<1> QED
  BY <1>1, <1>2, SendStagedImplements, SameImplements

LEMMA StepImplements == Inv /\ Idle /\ [Next]_vars => [R!Next]_R!routerVars
<1> SUFFICES ASSUME Inv, Idle, [Next]_vars PROVE R!Next \/ UNCHANGED R!routerVars
  OBVIOUS
<1>1. Unmoved => UNCHANGED R!routerVars
  BY DEF Unmoved, R!routerVars
<1>2. ASSUME NEW b \in Batch, SourceSends(b) PROVE R!Next
  <2>1. R!Send(b) /\ b \in R!Batch
    BY <1>2, SendImplements DEF Batch, R!Batch
  <2> QED
    BY <2>1 DEF R!Next
<1>3. ASSUME NEW q \in Queue, PublisherReceives(q) PROVE R!Next
  BY <1>3, HandOverImplements DEF R!Next
<1>4. CASE Receive \/ Route \/ Flush \/ FlushAll
  BY <1>1, <1>4, ReceiveImplements, RouteImplements, FlushImplements
<1>5. CASE SourceCloses \/ Cancel \/ ReceiveClosed \/ Tick \/ CtxDone \/ Routed \/ UNCHANGED vars
  <2>1. UNCHANGED <<pick, receives, cur, in, staging, queue>>
    BY <1>5 DEF SourceCloses, Cancel, ReceiveClosed, Tick, CtxDone, Routed, vars
  <2> QED
    BY <1>1, <2>1, SameImplements
<1> QED
  BY <1>2, <1>3, <1>4, <1>5 DEF Next, RunStep

\* The dispatcher implements Router, for any number of queues and any bounds:
\* whatever flushes, timers, full queues, cancellation and close interleave, each
\* queue hands over the events of its keys in the order sent, none dropped, none
\* twice.
THEOREM DispatcherImplementsRouter == Spec => ImplementsRouter
<1>1. Init => Idle /\ R!Init
  <2> SUFFICES ASSUME Init PROVE Idle /\ R!Init
    OBVIOUS
  <2>1. ASSUME NEW q \in Queue PROVE Owed(q) = <<>>
    <3>1. queue[q] = <<>> /\ staging[q] = <<>> /\ cur = <<>> /\ in = <<>>
      BY DEF Init
    <3>2. FlattenSeq(<<>>) = <<>> /\ <<>> \o <<>> = <<>>
      BY ConcatEmptySeq DEF FlattenSeq
    <3>3. Owed(q) = (<<>> \o <<>>) \o LaneOf(pick, <<>>, q)
      BY <3>1, <3>2, OwedIs DEF OwedOf
    <3> QED
      BY <3>2, <3>3, LaneEmpty
  <2>2. pick \in [Event -> Queue]
    BY DispatcherAssumption DEF Init
  <2>3. [q \in Queue |-> Owed(q)] = [q \in Queue |-> <<>>]
    BY <2>1
  <2> QED
    BY <2>2, <2>3 DEF Init, Idle, R!Init
<1> QED
  BY <1>1, StepImplements, StepIdle, InitInv, StepInv, PTL DEF Spec, ImplementsRouter, R!Spec
=============================================================================
