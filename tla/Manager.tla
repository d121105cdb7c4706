------------------------------ MODULE Manager ------------------------------
(***************************************************************************)
(* The control plane (src/pkg/server/server.go, src/cmd/nomios/main.go):   *)
(* the Manager registers hyperloops, starts them in a goroutine that       *)
(* restarts a failed Run with exponential backoff, and stops them; HTTP    *)
(* handlers call it concurrently; SIGTERM makes main call StopAll and      *)
(* exit; HTTP is served until StopAll returned.  Run itself is module      *)
(* Hyperloop; here it runs until it returns nil or an error.               *)
(*                                                                         *)
(* Each accepted Start makes one lifecycle: a goroutine with its own       *)
(* context and done channel.  cur[id] is the lifecycle whose cancel and    *)
(* done the managed entry of id holds, 0 for nil.                          *)
(***************************************************************************)
EXTENDS Naturals, Sequences, FiniteSets

CONSTANTS
    Id,                 \* names of hyperloops
    MaxRestarts,        \* Manager.MaxRestarts
    RestartBackoff,     \* Manager.RestartBackoff
    BackoffCap,         \* one minute
    MaxLives,           \* bound: accepted calls of Start
    MaxStops            \* bound: calls of Stop over HTTP

ASSUME ManagerAssumption ==
    /\ MaxRestarts \in Nat /\ MaxLives \in Nat /\ MaxStops \in Nat
    /\ RestartBackoff \in Nat \ {0} /\ BackoffCap \in Nat \ {0}
    /\ RestartBackoff <= BackoffCap

VARIABLES
    loops,      \* m.loops: the registered hyperloops
    cur,        \* l.cancel and l.done of each
    lives,      \* the lifecycle goroutines [id, pc, attempt, backoff, ctxDone]
    waiting,    \* calls of Stop that wait: [life, by]
    stops,      \* calls of Stop over HTTP so far
    main,       \* the main goroutine: boot, serving, stopping, exited, killed
    toStop,     \* hyperloops StopAll has yet to call Stop for
    timedOut,   \* history: StopAll met its deadline
    atSignal    \* history: lifecycles there were when StopAll looked

vars == <<loops, cur, lives, waiting, stops, main, toStop, timedOut, atSignal>>

Life == 1..Len(lives)
Over == {"ended", "gaveUp"}
Ended(g) == lives[g].pc \in Over
Alive == main \notin {"exited", "killed"}
HttpOpen == main \in {"serving", "stopping"}

Init ==
    /\ loops = {} /\ cur = [id \in Id |-> 0] /\ lives = <<>>
    /\ waiting = {} /\ stops = 0
    /\ main = "boot" /\ toStop = {} /\ timedOut = FALSE /\ atSignal = 0

(* A lifecycle's first state: a new context, a goroutine that calls Run. *)
NewLife(id) ==
    [id |-> id, pc |-> "run", attempt |-> 0, backoff |-> RestartBackoff,
     ctxDone |-> FALSE]

(* main, one definition of the config file: register, start unless         *)
(* autoStart is false.                                                     *)
Boot(id) ==
    /\ main = "boot" /\ id \notin loops
    /\ loops' = loops \cup {id}
    /\ \/ /\ Len(lives) < MaxLives
          /\ lives' = Append(lives, NewLife(id))
          /\ cur' = [cur EXCEPT ![id] = Len(lives) + 1]
       \/ UNCHANGED <<lives, cur>>
    /\ UNCHANGED <<waiting, stops, main, toStop, timedOut, atSignal>>

(* main: every definition is built; the control plane listens. *)
Serve ==
    /\ main = "boot"
    /\ main' = "serving"
    /\ UNCHANGED <<loops, cur, lives, waiting, stops, toStop, timedOut, atSignal>>

(* main, os.Exit(1): a definition cannot be built or its ID is taken, or   *)
(* the HTTP server failed.  Running hyperloops are not stopped.            *)
Killed ==
    /\ Alive
    /\ main' = "killed"
    /\ UNCHANGED <<loops, cur, lives, waiting, stops, toStop, timedOut, atSignal>>

(* POST /v1/hyperloops: Register refuses a known ID. *)
Register(id) ==
    /\ HttpOpen /\ id \notin loops
    /\ loops' = loops \cup {id}
    /\ UNCHANGED <<cur, lives, waiting, stops, main, toStop, timedOut, atSignal>>

\* Mutant: the done channel of the previous run is not looked at.
StartAlways(id) ==
    /\ HttpOpen /\ id \in loops /\ Len(lives) < MaxLives
    /\ lives' = Append(lives, NewLife(id))
    /\ cur' = [cur EXCEPT ![id] = Len(lives) + 1]
    /\ UNCHANGED <<loops, waiting, stops, main, toStop, timedOut, atSignal>>

(* Start: the previous lifecycle, if any, is over.  It is a no-op else.    *)
Start(id) ==
    /\ HttpOpen /\ id \in loops /\ Len(lives) < MaxLives
    /\ cur[id] \in {0} \cup {g \in Life : Ended(g)}
    /\ lives' = Append(lives, NewLife(id))
    /\ cur' = [cur EXCEPT ![id] = Len(lives) + 1]
    /\ UNCHANGED <<loops, waiting, stops, main, toStop, timedOut, atSignal>>

----------------------------------------------------------------------------
(* The goroutine of lifecycle g. *)

(* Run returns nil: it was cancelled, or the source ended by itself. *)
RunReturns(g) ==
    /\ lives[g].pc = "run"
    /\ lives' = [lives EXCEPT ![g].pc = "ended"]
    /\ UNCHANGED <<loops, cur, waiting, stops, main, toStop, timedOut, atSignal>>

\* Mutant: the restart budget is not looked at.
RunFailsNoBudget(g) ==
    /\ lives[g].pc = "run"
    /\ lives' = [lives EXCEPT ![g].pc = IF lives[g].ctxDone THEN "ended" ELSE "backoff"]
    /\ UNCHANGED <<loops, cur, waiting, stops, main, toStop, timedOut, atSignal>>

(* Run returns an error: the end if the stop was requested, or if the      *)
(* budget is spent; else wait for the backoff.                             *)
RunFails(g) ==
    /\ lives[g].pc = "run"
    /\ lives' = [lives EXCEPT ![g].pc =
                    IF lives[g].ctxDone THEN "ended"
                    ELSE IF lives[g].attempt >= MaxRestarts THEN "gaveUp"
                    ELSE "backoff"]
    /\ UNCHANGED <<loops, cur, waiting, stops, main, toStop, timedOut, atSignal>>

(* The backoff is over, perhaps in the instant of a stop: Run again. *)
BackoffOver(g) ==
    /\ lives[g].pc = "backoff"
    /\ lives' = [lives EXCEPT ![g].pc = "run", ![g].attempt = @ + 1,
                              ![g].backoff = IF 2 * @ > BackoffCap THEN BackoffCap
                                                                   ELSE 2 * @]
    /\ UNCHANGED <<loops, cur, waiting, stops, main, toStop, timedOut, atSignal>>

(* The stop is requested during the backoff. *)
BackoffCancelled(g) ==
    /\ lives[g].pc = "backoff" /\ lives[g].ctxDone
    /\ lives' = [lives EXCEPT ![g].pc = "ended"]
    /\ UNCHANGED <<loops, cur, waiting, stops, main, toStop, timedOut, atSignal>>

----------------------------------------------------------------------------
\* Mutant: the context of the lifecycle is not cancelled.
CancelNothing(id, by) ==
    IF cur[id] = 0
    THEN UNCHANGED <<lives, waiting>>
    ELSE waiting' = waiting \cup {[life |-> cur[id], by |-> by]} /\ UNCHANGED lives

(* Stop, up to its select: read cancel and done, cancel. *)
Cancel(id, by) ==
    IF cur[id] = 0
    THEN UNCHANGED <<lives, waiting>>
    ELSE /\ lives' = [lives EXCEPT ![cur[id]].ctxDone = TRUE]
         /\ waiting' = waiting \cup {[life |-> cur[id], by |-> by]}

(* POST /v1/hyperloops/{id}/stop *)
HttpStop(id) ==
    /\ HttpOpen /\ id \in loops /\ stops < MaxStops
    /\ Cancel(id, "http")
    /\ stops' = stops + 1
    /\ UNCHANGED <<loops, cur, main, toStop, timedOut, atSignal>>

(* Stop: the lifecycle it cancelled has closed its done channel. *)
StopReturns(w) ==
    /\ Ended(w.life)
    /\ waiting' = waiting \ {w}
    /\ UNCHANGED <<loops, cur, lives, stops, main, toStop, timedOut, atSignal>>

(* Stop: its own context ended first; the lifecycle goes on stopping. *)
StopTimesOut(w) ==
    /\ waiting' = waiting \ {w}
    /\ timedOut' = (timedOut \/ w.by = "main")
    /\ UNCHANGED <<loops, cur, lives, stops, main, toStop, atSignal>>

(* SIGTERM: StopAll lists the hyperloops ... *)
StopAll ==
    /\ main = "serving"
    /\ main' = "stopping" /\ toStop' = loops
    /\ atSignal' = Len(lives)
    /\ UNCHANGED <<loops, cur, lives, waiting, stops, timedOut>>

(* ... and calls Stop for each in a goroutine of its own. *)
StopAllStops(id) ==
    /\ id \in toStop
    /\ toStop' = toStop \ {id}
    /\ Cancel(id, "main")
    /\ UNCHANGED <<loops, cur, stops, main, timedOut, atSignal>>

\* Mutant: StopAll does not wait for its calls of Stop.
ExitsAtOnce ==
    /\ main = "stopping" /\ toStop = {}
    /\ main' = "exited"
    /\ UNCHANGED <<loops, cur, lives, waiting, stops, toStop, timedOut, atSignal>>

(* All of them returned; the HTTP server shuts down and the process exits. *)
Exits ==
    /\ main = "stopping" /\ toStop = {}
    /\ \A w \in waiting : w.by # "main"
    /\ main' = "exited"
    /\ UNCHANGED <<loops, cur, lives, waiting, stops, toStop, timedOut, atSignal>>

Lifecycle(g) == RunReturns(g) \/ RunFails(g) \/ BackoffOver(g) \/ BackoffCancelled(g)

Next ==
    /\ Alive
    /\ \/ \E id \in Id : Boot(id) \/ Register(id) \/ Start(id) \/ HttpStop(id) \/ StopAllStops(id)
       \/ \E g \in Life : Lifecycle(g)
       \/ \E w \in waiting : StopReturns(w) \/ StopTimesOut(w)
       \/ Serve \/ StopAll \/ Exits \/ Killed

Spec == Init /\ [][Next]_vars

(* A cancelled Run returns (Hyperloop!BoundedShutdown), timers fire, and a *)
(* Stop whose channel is closed returns.  A Run that is not cancelled may  *)
(* last forever, and no deadline of a Stop is assumed to pass.             *)
Fairness ==
    /\ \A g \in 1..MaxLives :
         WF_vars(/\ Alive /\ g \in Life
                 /\ lives[g].ctxDone \/ lives[g].pc = "backoff"
                 /\ Lifecycle(g))
    /\ \A g \in 1..MaxLives, by \in {"http", "main"} :
         WF_vars(/\ Alive /\ [life |-> g, by |-> by] \in waiting
                 /\ StopReturns([life |-> g, by |-> by]))
    /\ \A id \in Id : WF_vars(Alive /\ StopAllStops(id))
    /\ WF_vars(Exits)

FairSpec == Spec /\ Fairness

----------------------------------------------------------------------------
Lifecycles ==
    {l \in [id : Id, pc : {"run", "backoff"} \cup Over, attempt : 0..MaxRestarts,
            backoff : 1..BackoffCap, ctxDone : BOOLEAN] :
        l.pc = "gaveUp" => l.attempt = MaxRestarts}

\* Every variable has its type; in particular no lifecycle restarts its Run
\* more than MaxRestarts times, none gives up before it has restarted it that
\* often, and no backoff exceeds the cap.
TypeOK ==
    /\ loops \subseteq Id /\ cur \in [Id -> 0..Len(lives)]
    /\ lives \in Seq(Lifecycles) /\ Len(lives) <= MaxLives
    /\ waiting \subseteq [life : Life, by : {"http", "main"}]
    /\ stops \in 0..MaxStops
    /\ main \in {"boot", "serving", "stopping", "exited", "killed"}
    /\ toStop \subseteq loops /\ timedOut \in BOOLEAN
    /\ atSignal \in 0..Len(lives)

\* However starts, stops, failures and backoffs interleave, at most one
\* goroutine runs a hyperloop, and it is the one Stop would reach.
OneRun == \A g \in Life : ~Ended(g) => cur[lives[g].id] = g

\* StopAll (server.go:143): when the process exits after a signal and no deadline
\* passed, every lifecycle there was at the signal has ended, although requests
\* keep starting and stopping hyperloops meanwhile.
ExitAfterDrain ==
    (main = "exited" /\ ~timedOut) => \A g \in 1..atSignal : Ended(g)

\* "Stop gracefully stops a hyperloop" (server.go:122): a cancelled lifecycle
\* ends, also from the middle of a backoff, and every waiting Stop returns.
StopCompletes ==
    \A g \in 1..MaxLives :
        (\E w \in waiting : w.life = g)
          ~> (~Alive \/ (g \in Life /\ Ended(g) /\ \A w \in waiting : w.life # g))
=============================================================================
