------------------------------- MODULE Router -------------------------------
(***************************************************************************)
(* What the dispatcher promises (src/pkg/dispatch/dispatch.go:1-8): each   *)
(* event goes to the queue of its key, and every queue hands its events    *)
(* over in the order in which the source sent them, none dropped, none     *)
(* twice.  owed[q] are the events sent and not yet handed over on q.       *)
(***************************************************************************)
EXTENDS Naturals, Sequences

CONSTANTS
    Queue,      \* the buffer queues
    Event,      \* events
    MaxSend,    \* bound: events in one source batch
    MaxHand     \* events handed over at once (a micro-batch)

VARIABLES
    pick,       \* pick[e]: the queue of the key of e
    owed,       \* owed[q]: sent on q and not handed over yet
    receives    \* micro-batches handed over, modulo 2

routerVars == <<pick, owed, receives>>

\* The events of a batch that belong to queue q, in order.
Lane(b, q) ==
    LET lane[i \in 0..Len(b)] ==
          IF i = 0 THEN <<>>
          ELSE IF pick[b[i]] = q THEN Append(lane[i - 1], b[i]) ELSE lane[i - 1]
    IN  lane[Len(b)]

Init ==
    /\ pick \in [Event -> Queue]
    /\ owed = [q \in Queue |-> <<>>]
    /\ receives = 0

(* The source sends a batch. *)
Send(b) ==
    /\ UNCHANGED <<pick, receives>>
    /\ owed' = [q \in Queue |-> owed[q] \o Lane(b, q)]

(* A publisher receives the n events owed longest on its queue. *)
HandOver(q, n) ==
    /\ n <= Len(owed[q])
    /\ receives' = 1 - receives
    /\ owed' = [owed EXCEPT ![q] = SubSeq(@, n + 1, Len(@))]
    /\ UNCHANGED pick

Batch == UNION {[1..k -> Event] : k \in 1..MaxSend}

Next ==
    \/ \E b \in Batch : Send(b)
    \/ \E q \in Queue, n \in 1..MaxHand : HandOver(q, n)

Spec == Init /\ [][Next]_routerVars

\* A queue whose events are owed hands some over again and again.
HandsOver(q) == \E n \in 1..MaxHand : HandOver(q, n)
Liveness == \A q \in Queue : WF_routerVars(HandsOver(q))
=============================================================================
