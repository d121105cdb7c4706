--------------------------- MODULE ManagerProofs ----------------------------
(***************************************************************************)
(* For any number of hyperloops, lifecycles, restarts and requests: the    *)
(* manager never runs a hyperloop twice at a time, never restarts beyond   *)
(* its budget, and a process that exits after a signal has drained what    *)
(* was running at the signal.                                              *)
(***************************************************************************)
EXTENDS Manager, SequenceTheorems, TLAPS

\* A lifecycle belongs to a registered hyperloop (Start looks it up in m.loops).
LivesRegistered == \A g \in Life : lives[g].id \in loops

\* A lifecycle that waits for its backoff has a restart left (server.go: attempt
\* is compared with MaxRestarts before the backoff).
BudgetLeft == \A g \in Life : lives[g].pc = "backoff" => lives[g].attempt < MaxRestarts

\* From the signal on, a lifecycle that was there at the signal has ended, or
\* StopAll has yet to call Stop for it, or waits for it, or gave up a wait.
Draining ==
    main \in {"stopping", "exited"} /\ ~timedOut
      => \A g \in 1..atSignal :
            Ended(g) \/ lives[g].id \in toStop \/ [life |-> g, by |-> "main"] \in waiting

\* No Stop of StopAll is left when the process exits.
Drained ==
    main = "exited" => toStop = {} /\ \A w \in waiting : w.by # "main"

\* The inductive invariant.
Inv == TypeOK /\ LivesRegistered /\ BudgetLeft /\ OneRun /\ Draining /\ Drained

----------------------------------------------------------------------------
\* Before main reads its file there is nothing to run or to wait for (NewManager).
LEMMA InitInv == Init => Inv
<1> SUFFICES ASSUME Init PROVE Inv
  OBVIOUS
<1> USE ManagerAssumption DEF Init
<1>1. lives = <<>> /\ Len(lives) = 0 /\ lives \in Seq(Lifecycles)
  BY EmptySeq
<1>2. Life = {}
  BY <1>1 DEF Life
<1>3. TypeOK
  <2>1. cur \in [Id -> 0..Len(lives)] /\ Len(lives) <= MaxLives
    BY <1>1
  <2>2. stops \in 0..MaxStops /\ atSignal \in 0..Len(lives)
    BY <1>1
  <2>3. timedOut \in BOOLEAN /\ waiting \subseteq [life : Life, by : {"http", "main"}]
    OBVIOUS
  <2> QED
    BY <1>1, <2>1, <2>2, <2>3 DEF TypeOK
<1>4. LivesRegistered /\ BudgetLeft /\ OneRun
  BY <1>2 DEF LivesRegistered, BudgetLeft, OneRun
<1>5. Draining /\ Drained
  BY DEF Draining, Drained
<1> QED
  BY <1>3, <1>4, <1>5 DEF Inv

\* The first state of a lifecycle is one of its states.
LEMMA NewLifeType == \A id \in Id : NewLife(id) \in Lifecycles
  BY ManagerAssumption DEF NewLife, Lifecycles

\* Start and Boot append a lifecycle for a registered hyperloop whose previous
\* lifecycle, if any, is over: the new one is the only one that runs.
LEMMA BeginLifeInv ==
    ASSUME Inv, NEW id \in Id, id \in loops', loops \subseteq loops', loops' \subseteq Id,
           Len(lives) < MaxLives,
           \A g \in Life : lives[g].id = id => Ended(g),
           lives' = Append(lives, NewLife(id)),
           cur' = [cur EXCEPT ![id] = Len(lives) + 1],
           UNCHANGED <<waiting, stops, main, toStop, timedOut, atSignal>>
    PROVE  Inv'
<1> DEFINE n == Len(lives)
<1>1. /\ lives \in Seq(Lifecycles) /\ n \in Nat /\ cur \in [Id -> 0..n]
      /\ waiting \subseteq [life : Life, by : {"http", "main"}]
      /\ toStop \subseteq loops /\ atSignal \in 0..n
  BY DEF Inv, TypeOK
<1>2. NewLife(id) \in Lifecycles
  BY NewLifeType
<1>3. /\ lives' \in Seq(Lifecycles) /\ Len(lives') = n + 1
      /\ \A g \in Life : lives'[g] = lives[g]
      /\ lives'[n + 1] = NewLife(id)
  BY <1>1, <1>2 DEF Life
<1>4. Life' = Life \cup {n + 1} /\ n + 1 \notin Life
  BY <1>1, <1>3 DEF Life
<1>5. /\ \A h \in Id : h # id => cur'[h] = cur[h]
      /\ cur'[id] = n + 1
  BY <1>1
<1>6. TypeOK'
  <2>1. cur' \in [Id -> 0..Len(lives')]
    BY <1>1, <1>3
  <2>2. waiting' \subseteq [life : Life', by : {"http", "main"}]
    BY <1>1, <1>4
  <2>3. atSignal' \in 0..Len(lives')
    BY <1>1, <1>3
  <2>4. Len(lives') <= MaxLives
    BY <1>1, <1>3, ManagerAssumption
  <2> QED
    BY <1>1, <1>3, <2>1, <2>2, <2>3, <2>4 DEF Inv, TypeOK
<1>7. LivesRegistered'
  <2>1. lives'[n + 1].id = id
    BY <1>3 DEF NewLife
  <2>2. \A g \in Life : lives'[g].id \in loops
    BY <1>3 DEF Inv, LivesRegistered
  <2> QED
    BY <1>4, <2>1, <2>2 DEF LivesRegistered
<1>8. BudgetLeft'
  <2>1. lives'[n + 1].pc # "backoff"
    BY <1>3 DEF NewLife
  <2>2. \A g \in Life : lives'[g].pc = "backoff" => lives'[g].attempt < MaxRestarts
    BY <1>3 DEF Inv, BudgetLeft
  <2> QED
    BY <1>4, <2>1, <2>2 DEF BudgetLeft
<1>9. OneRun'
  <2> SUFFICES ASSUME NEW g \in Life', ~Ended(g)' PROVE cur'[lives'[g].id] = g
    BY DEF OneRun
  <2>1. CASE g = n + 1
    BY <1>3, <1>5, <2>1 DEF NewLife
  <2>2. CASE g \in Life
    <3>1. lives'[g] = lives[g] /\ lives[g] \in Lifecycles /\ ~Ended(g)
      BY <1>1, <1>3, <2>2, ElementOfSeq DEF Ended, Life
    <3>2. lives[g].id \in Id /\ lives[g].id # id /\ cur[lives[g].id] = g
      BY <2>2, <3>1 DEF Inv, OneRun, Lifecycles
    <3> QED
      BY <1>5, <3>1, <3>2
  <2> QED
    BY <1>4, <2>1, <2>2
<1>10. Draining'
  <2>1. \A g \in 1..atSignal : g \in Life
    BY <1>1 DEF Life
  <2> QED
    BY <1>3, <2>1 DEF Inv, Draining, Ended
<1>11. Drained'
  BY DEF Inv, Drained
<1> QED
  BY <1>6, <1>7, <1>8, <1>9, <1>10, <1>11 DEF Inv

\* A step of the goroutine of a lifecycle, or the cancellation of its context,
\* rewrites one lifecycle in place.
LEMMA RewriteLife ==
    ASSUME TypeOK, NEW g \in Life, NEW l \in Lifecycles,
           lives' = [lives EXCEPT ![g] = l]
    PROVE  /\ lives' \in Seq(Lifecycles) /\ Len(lives') = Len(lives) /\ Life' = Life
           /\ \A h \in Life : lives'[h] = IF h = g THEN l ELSE lives[h]
<1>1. lives \in Seq(Lifecycles)
  BY DEF TypeOK
<1> QED
  BY <1>1, ExceptSeq DEF Life

\* Rewriting keeps the parts of the invariant that are about lifecycles, if it
\* keeps their hyperloop and never brings an ended one back.
LEMMA RewriteLifeInv ==
    ASSUME Inv, NEW g \in Life, NEW l \in Lifecycles,
           l.id = lives[g].id, Ended(g) => l.pc \in Over,
           l.pc = "backoff" => l.attempt < MaxRestarts,
           lives' = [lives EXCEPT ![g] = l],
           UNCHANGED <<loops, cur>>
    PROVE  /\ LivesRegistered' /\ BudgetLeft' /\ OneRun'
           /\ \A h \in Life : lives'[h].id = lives[h].id /\ (Ended(h) => Ended(h)')
<1>1. /\ Life' = Life
      /\ \A h \in Life : lives'[h] = IF h = g THEN l ELSE lives[h]
  BY RewriteLife DEF Inv
<1>2. \A h \in Life : lives'[h].id = lives[h].id /\ (Ended(h) => Ended(h)')
  BY <1>1 DEF Ended
<1>3. LivesRegistered' /\ BudgetLeft'
  BY <1>1, <1>2 DEF Inv, LivesRegistered, BudgetLeft
<1>4. OneRun'
  BY <1>1, <1>2 DEF Inv, OneRun
<1> QED
  BY <1>2, <1>3, <1>4

\* Each step of the goroutine of Start (Run returns, fails, is restarted, or the
\* backoff is cancelled) preserves the invariant.
LEMMA LifecycleInv ==
    ASSUME Inv, NEW g \in Life, Lifecycle(g)
    PROVE  Inv'
<1>1. lives \in Seq(Lifecycles) /\ Len(lives) \in Nat /\ atSignal \in 0..Len(lives)
  BY DEF Inv, TypeOK
<1>2. lives[g] \in Lifecycles
  BY <1>1, ElementOfSeq DEF Life
<1>3. UNCHANGED <<loops, cur, waiting, stops, main, toStop, timedOut, atSignal>>
  BY DEF Lifecycle, RunReturns, RunFails, BackoffOver, BackoffCancelled
\* What the goroutine writes into its lifecycle.
<1>4. \E l \in Lifecycles :
        /\ l.id = lives[g].id /\ (Ended(g) => l.pc \in Over)
        /\ l.pc = "backoff" => l.attempt < MaxRestarts
        /\ lives' = [lives EXCEPT ![g] = l]
  <2>1. CASE RunReturns(g)
    <3> DEFINE l == [lives[g] EXCEPT !.pc = "ended"]
    <3>1. lives' = [lives EXCEPT ![g] = l]
      BY <2>1 DEF RunReturns
    <3>2. l \in Lifecycles /\ l.id = lives[g].id /\ l.pc = "ended"
      BY <1>2 DEF Lifecycles, Over
    <3> QED
      BY <3>1, <3>2 DEF Over
  <2>2. CASE RunFails(g)
    <3> DEFINE pc == IF lives[g].ctxDone THEN "ended"
                     ELSE IF lives[g].attempt >= MaxRestarts THEN "gaveUp"
                     ELSE "backoff"
               l == [lives[g] EXCEPT !.pc = pc]
    <3>1. lives' = [lives EXCEPT ![g] = l]
      BY <2>2 DEF RunFails
    <3>2. l \in Lifecycles /\ l.id = lives[g].id /\ l.attempt = lives[g].attempt
      BY <1>2, ManagerAssumption DEF Lifecycles, Over
    <3>3. l.pc = "backoff" => lives[g].attempt < MaxRestarts
      BY <1>2, ManagerAssumption DEF Lifecycles
    <3>4. ~Ended(g)
      BY <2>2 DEF RunFails, Ended, Over
    <3> QED
      BY <3>1, <3>2, <3>3, <3>4
  <2>3. CASE BackoffOver(g)
    <3> DEFINE b == IF 2 * lives[g].backoff > BackoffCap THEN BackoffCap
                                                       ELSE 2 * lives[g].backoff
               l == [lives[g] EXCEPT !.pc = "run", !.attempt = @ + 1, !.backoff = b]
    <3>1. lives' = [lives EXCEPT ![g] = l] /\ ~Ended(g)
      BY <2>3 DEF BackoffOver, Ended, Over
    <3>2. lives[g].attempt + 1 \in 0..MaxRestarts
      BY <1>2, <2>3, ManagerAssumption DEF Inv, BudgetLeft, BackoffOver, Lifecycles
    <3>3. b \in 1..BackoffCap
      BY <1>2, ManagerAssumption DEF Lifecycles
    <3>4. l \in Lifecycles /\ l.id = lives[g].id /\ l.pc = "run"
      BY <1>2, <3>2, <3>3 DEF Lifecycles
    <3> QED
      BY <3>1, <3>4
  <2>4. CASE BackoffCancelled(g)
    <3> DEFINE l == [lives[g] EXCEPT !.pc = "ended"]
    <3>1. lives' = [lives EXCEPT ![g] = l]
      BY <2>4 DEF BackoffCancelled
    <3>2. l \in Lifecycles /\ l.id = lives[g].id /\ l.pc = "ended"
      BY <1>2 DEF Lifecycles, Over
    <3> QED
      BY <3>1, <3>2 DEF Over
  <2> QED
    BY <2>1, <2>2, <2>3, <2>4 DEF Lifecycle
<1>5. /\ LivesRegistered' /\ BudgetLeft' /\ OneRun'
      /\ \A h \in Life : lives'[h].id = lives[h].id /\ (Ended(h) => Ended(h)')
  BY <1>3, <1>4, RewriteLifeInv
<1>6. lives' \in Seq(Lifecycles) /\ Len(lives') = Len(lives) /\ Life' = Life
  BY <1>4, RewriteLife DEF Inv
<1>7. TypeOK'
  BY <1>3, <1>6 DEF Inv, TypeOK
<1>8. Draining' /\ Drained'
  <2>1. \A h \in 1..atSignal : h \in Life
    BY <1>1 DEF Life
  <2> QED
    BY <1>3, <1>5, <2>1 DEF Inv, Draining, Drained
<1> QED
  BY <1>5, <1>7, <1>8 DEF Inv

\* Stop, up to its select (HttpStop and the calls of StopAll), cancels the
\* lifecycle that runs, if any, and waits for it.
LEMMA CancelFacts ==
    ASSUME Inv, NEW id \in Id, NEW by \in {"http", "main"}, Cancel(id, by),
           UNCHANGED <<loops, cur>>
    PROVE  /\ LivesRegistered' /\ BudgetLeft' /\ OneRun'
           /\ lives' \in Seq(Lifecycles) /\ Len(lives') = Len(lives) /\ Life' = Life
           /\ \A h \in Life : lives'[h].id = lives[h].id /\ (Ended(h) => Ended(h)')
           /\ waiting' \subseteq [life : Life, by : {"http", "main"}]
           /\ waiting \subseteq waiting'
           /\ \A w \in waiting' : w \in waiting \/ w.by = by
           /\ \A h \in Life : (~Ended(h) /\ lives[h].id = id)
                                => [life |-> h, by |-> by] \in waiting'
<1>1. /\ lives \in Seq(Lifecycles) /\ Len(lives) \in Nat
      /\ cur \in [Id -> 0..Len(lives)]
      /\ waiting \subseteq [life : Life, by : {"http", "main"}]
  BY DEF Inv, TypeOK
<1>2. \A h \in Life : (~Ended(h) /\ lives[h].id = id) => cur[id] = h
  BY DEF Inv, OneRun
<1>3. CASE cur[id] = 0
  <2>1. UNCHANGED <<lives, waiting>> /\ Life' = Life
    BY <1>3 DEF Cancel, Life
  <2>2. \A h \in Life : ~(~Ended(h) /\ lives[h].id = id)
    BY <1>1, <1>2, <1>3 DEF Life
  <2>3. LivesRegistered' /\ BudgetLeft' /\ OneRun'
    BY <2>1 DEF Inv, LivesRegistered, BudgetLeft, OneRun, Ended
  <2> QED
    BY <1>1, <2>1, <2>2, <2>3 DEF Ended
<1>4. CASE cur[id] # 0
  <2> DEFINE g == cur[id]
             l == [lives[g] EXCEPT !.ctxDone = TRUE]
  <2>1. g \in Life
    BY <1>1, <1>4 DEF Life
  <2>2. lives[g] \in Lifecycles
    BY <1>1, <2>1, ElementOfSeq DEF Life
  <2>3. lives' = [lives EXCEPT ![g] = l]
    BY <1>4 DEF Cancel
  <2>4. /\ l \in Lifecycles /\ l.id = lives[g].id /\ l.pc = lives[g].pc
        /\ l.attempt = lives[g].attempt
    BY <2>2 DEF Lifecycles
  <2>5. /\ Ended(g) => l.pc \in Over
        /\ l.pc = "backoff" => l.attempt < MaxRestarts
    BY <2>1, <2>4 DEF Inv, BudgetLeft, Ended
  <2>6. /\ LivesRegistered' /\ BudgetLeft' /\ OneRun'
        /\ \A h \in Life : lives'[h].id = lives[h].id /\ (Ended(h) => Ended(h)')
    <3> HIDE DEF l, g
    <3> QED
      BY <2>1, <2>3, <2>4, <2>5, RewriteLifeInv
  <2>7. lives' \in Seq(Lifecycles) /\ Len(lives') = Len(lives) /\ Life' = Life
    <3> HIDE DEF l, g
    <3> QED
      BY <2>1, <2>3, <2>4, RewriteLife DEF Inv
  <2>8. waiting' = waiting \cup {[life |-> g, by |-> by]}
    BY <1>4 DEF Cancel
  <2>9. /\ waiting' \subseteq [life : Life, by : {"http", "main"}]
        /\ waiting \subseteq waiting'
        /\ \A w \in waiting' : w \in waiting \/ w.by = by
    BY <1>1, <2>1, <2>8
  <2>10. \A h \in Life : (~Ended(h) /\ lives[h].id = id)
                           => [life |-> h, by |-> by] \in waiting'
    BY <1>2, <2>8
  <2> QED
    BY <2>6, <2>7, <2>9, <2>10
<1> QED
  BY <1>3, <1>4

\* Every step of handlers, lifecycles and main preserves the invariant.
LEMMA StepInv == Inv /\ [Next]_vars => Inv'
<1> SUFFICES ASSUME Inv, [Next]_vars PROVE Inv'
  OBVIOUS
<1>1. /\ lives \in Seq(Lifecycles) /\ Len(lives) \in Nat
      /\ cur \in [Id -> 0..Len(lives)] /\ atSignal \in 0..Len(lives)
      /\ loops \subseteq Id /\ toStop \subseteq loops
      /\ waiting \subseteq [life : Life, by : {"http", "main"}]
  BY DEF Inv, TypeOK
<1>2. \A h \in 1..atSignal : h \in Life
  BY <1>1 DEF Life
<1>3. ASSUME NEW id \in Id, Boot(id) PROVE Inv'
  <2>1. \A g \in Life : lives[g].id # id
    BY <1>3 DEF Inv, LivesRegistered, Boot
  <2>2. CASE lives' = Append(lives, NewLife(id))
             /\ cur' = [cur EXCEPT ![id] = Len(lives) + 1] /\ Len(lives) < MaxLives
    <3>1. /\ id \in loops' /\ loops \subseteq loops' /\ loops' \subseteq Id
          /\ UNCHANGED <<waiting, stops, main, toStop, timedOut, atSignal>>
      BY <1>1, <1>3 DEF Boot
    <3> QED
      BY <2>1, <2>2, <3>1, BeginLifeInv
  <2>3. CASE UNCHANGED <<lives, cur>>
    <3>1. /\ UNCHANGED <<lives, cur, waiting, stops, main, toStop, timedOut, atSignal>>
          /\ loops' = loops \cup {id}
      BY <1>3, <2>3 DEF Boot
    <3> QED
      BY <1>1, <3>1 DEF Inv, TypeOK, LivesRegistered, BudgetLeft, OneRun, Draining,
                        Drained, Life, Ended
  <2> QED
    BY <1>3, <2>2, <2>3 DEF Boot
<1>4. ASSUME NEW id \in Id, Register(id) PROVE Inv'
  <2>1. /\ UNCHANGED <<lives, cur, waiting, stops, main, toStop, timedOut, atSignal>>
        /\ loops' = loops \cup {id}
    BY <1>4 DEF Register
  <2> QED
    BY <1>1, <2>1 DEF Inv, TypeOK, LivesRegistered, BudgetLeft, OneRun, Draining,
                      Drained, Life, Ended
<1>5. ASSUME NEW id \in Id, Start(id) PROVE Inv'
  <2>1. \A g \in Life : lives[g].id = id => Ended(g)
    <3> SUFFICES ASSUME NEW g \in Life, lives[g].id = id, ~Ended(g) PROVE FALSE
      OBVIOUS
    <3>1. cur[id] = g
      BY DEF Inv, OneRun
    <3> QED
      BY <1>1, <1>5, <3>1 DEF Start, Life
  <2>2. /\ lives' = Append(lives, NewLife(id)) /\ Len(lives) < MaxLives
        /\ cur' = [cur EXCEPT ![id] = Len(lives) + 1] /\ id \in loops'
        /\ loops \subseteq loops' /\ loops' \subseteq Id
        /\ UNCHANGED <<waiting, stops, main, toStop, timedOut, atSignal>>
    BY <1>1, <1>5 DEF Start
  <2> QED
    BY <2>1, <2>2, BeginLifeInv
<1>6. ASSUME NEW id \in Id, HttpStop(id) PROVE Inv'
  <2>1. /\ Cancel(id, "http") /\ stops' = stops + 1 /\ stops < MaxStops
        /\ UNCHANGED <<loops, cur, main, toStop, timedOut, atSignal>> /\ HttpOpen
    BY <1>6 DEF HttpStop
  <2>2. /\ LivesRegistered' /\ BudgetLeft' /\ OneRun'
        /\ lives' \in Seq(Lifecycles) /\ Len(lives') = Len(lives) /\ Life' = Life
        /\ \A h \in Life : lives'[h].id = lives[h].id /\ (Ended(h) => Ended(h)')
        /\ waiting' \subseteq [life : Life, by : {"http", "main"}]
        /\ waiting \subseteq waiting'
    BY <2>1, CancelFacts
  <2>3. stops' \in 0..MaxStops
    BY <2>1, ManagerAssumption DEF Inv, TypeOK
  <2>4. TypeOK'
    BY <2>1, <2>2, <2>3 DEF Inv, TypeOK
  <2>5. Draining'
    BY <1>2, <2>1, <2>2 DEF Inv, Draining
  <2>6. Drained'
    BY <2>1 DEF Drained, HttpOpen
  <2> QED
    BY <2>2, <2>4, <2>5, <2>6 DEF Inv
<1>7. ASSUME NEW id \in Id, StopAllStops(id), Alive PROVE Inv'
  <2>1. /\ Cancel(id, "main") /\ toStop' = toStop \ {id}
        /\ UNCHANGED <<loops, cur, stops, main, timedOut, atSignal>>
    BY <1>7 DEF StopAllStops
  <2>2. /\ LivesRegistered' /\ BudgetLeft' /\ OneRun'
        /\ lives' \in Seq(Lifecycles) /\ Len(lives') = Len(lives) /\ Life' = Life
        /\ \A h \in Life : lives'[h].id = lives[h].id /\ (Ended(h) => Ended(h)')
        /\ waiting' \subseteq [life : Life, by : {"http", "main"}]
        /\ waiting \subseteq waiting'
        /\ \A h \in Life : (~Ended(h) /\ lives[h].id = id)
                             => [life |-> h, by |-> "main"] \in waiting'
    BY <2>1, CancelFacts
  <2>3. TypeOK'
    BY <1>1, <2>1, <2>2 DEF Inv, TypeOK
  <2>4. Draining'
    <3> SUFFICES ASSUME main \in {"stopping", "exited"}, ~timedOut,
                        NEW g \in 1..atSignal
                 PROVE  \/ Ended(g)' \/ lives'[g].id \in toStop'
                        \/ [life |-> g, by |-> "main"] \in waiting'
      BY <2>1 DEF Draining
    <3>1. Ended(g) \/ lives[g].id \in toStop \/ [life |-> g, by |-> "main"] \in waiting
      BY DEF Inv, Draining
    <3> QED
      BY <1>2, <2>1, <2>2, <3>1
  <2>5. Drained'
    BY <1>7, <2>1 DEF Drained, Alive
  <2> QED
    BY <2>2, <2>3, <2>4, <2>5 DEF Inv
<1>8. ASSUME NEW g \in Life, Lifecycle(g) PROVE Inv'
  BY <1>8, LifecycleInv
<1>9. ASSUME NEW w \in waiting, Alive, StopReturns(w) \/ StopTimesOut(w) PROVE Inv'
  <2>1. /\ UNCHANGED <<loops, cur, lives, stops, main, toStop, atSignal>>
        /\ waiting' = waiting \ {w}
        /\ Ended(w.life) \/ (w.by = "main" => timedOut')
        /\ timedOut => timedOut'
        /\ timedOut' \in BOOLEAN
    <3>1. timedOut \in BOOLEAN
      BY DEF Inv, TypeOK
    <3>2. CASE StopReturns(w)
      BY <3>1, <3>2, Zenon DEF StopReturns
    <3>3. CASE StopTimesOut(w)
      BY <3>1, <3>3, Zenon DEF StopTimesOut
    <3> QED
      BY <1>9, <3>2, <3>3
  <2>2. TypeOK'
    BY <2>1 DEF Inv, TypeOK, Life
  <2>3. LivesRegistered' /\ BudgetLeft' /\ OneRun'
    BY <2>1 DEF Inv, LivesRegistered, BudgetLeft, OneRun, Life, Ended
  <2>4. Draining'
    <3> SUFFICES ASSUME main \in {"stopping", "exited"}, ~timedOut',
                        NEW g \in 1..atSignal
                 PROVE  \/ Ended(g) \/ lives[g].id \in toStop
                        \/ [life |-> g, by |-> "main"] \in waiting'
      BY <2>1 DEF Draining, Ended
    <3>1. ~timedOut
      BY <2>1
    <3>2. Ended(g) \/ lives[g].id \in toStop \/ [life |-> g, by |-> "main"] \in waiting
      BY <3>1 DEF Inv, Draining
    <3>3. w = [life |-> g, by |-> "main"] => Ended(g)
      BY <2>1, <3>1
    <3> QED
      BY <2>1, <3>2, <3>3
  <2>5. Drained'
    BY <1>9, <2>1 DEF Drained, Alive
  <2> QED
    BY <2>2, <2>3, <2>4, <2>5 DEF Inv
<1>10. CASE Serve
  BY <1>10 DEF Inv, TypeOK, LivesRegistered, BudgetLeft, OneRun, Draining, Drained,
               Life, Ended, Serve
<1>11. CASE StopAll
  BY <1>1, <1>2, <1>11 DEF Inv, TypeOK, LivesRegistered, BudgetLeft, OneRun, Draining,
               Drained, Life, Ended, StopAll
<1>12. CASE Exits
  BY <1>12 DEF Inv, TypeOK, LivesRegistered, BudgetLeft, OneRun, Draining, Drained,
               Life, Ended, Exits
<1>13. CASE Killed
  BY <1>13 DEF Inv, TypeOK, LivesRegistered, BudgetLeft, OneRun, Draining, Drained,
               Life, Ended, Killed
<1>14. CASE UNCHANGED vars
  BY <1>14 DEF Inv, TypeOK, LivesRegistered, BudgetLeft, OneRun, Draining, Drained,
               Life, Ended, vars
<1> QED
  BY <1>3, <1>4, <1>5, <1>6, <1>7, <1>8, <1>9, <1>10, <1>11, <1>12, <1>13, <1>14
     DEF Next

\* The invariant of the manager holds in every reachable state.
LEMMA ManagerInv == Spec => []Inv
  BY InitInv, StepInv, PTL DEF Spec

\* Every reachable state of the manager is well typed; in particular a lifecycle
\* restarts its Run at most MaxRestarts times and its backoff stays within the cap.
THEOREM ManagerTypeCorrect == Spec => []TypeOK
  BY ManagerInv, PTL DEF Inv

\* However boot, requests, failures, backoffs and the signal interleave, at most
\* one goroutine runs a hyperloop, and it is the one Stop cancels.
THEOREM OneRunAtATime == Spec => []OneRun
  BY ManagerInv, PTL DEF Inv

\* StopAll: when the process exits and none of its deadlines passed, every
\* lifecycle that was there at the signal has ended.
THEOREM ExitsDrained == Spec => []ExitAfterDrain
<1>1. Inv => ExitAfterDrain
  <2> SUFFICES ASSUME Inv, main = "exited", ~timedOut, NEW g \in 1..atSignal
               PROVE  Ended(g)
    BY DEF ExitAfterDrain
  <2>1. Ended(g) \/ lives[g].id \in toStop \/ [life |-> g, by |-> "main"] \in waiting
    BY DEF Inv, Draining
  <2>2. toStop = {} /\ \A w \in waiting : w.by # "main"
    BY DEF Inv, Drained
  <2> QED
    BY <2>1, <2>2
<1> QED
  BY <1>1, ManagerInv, PTL
=============================================================================
