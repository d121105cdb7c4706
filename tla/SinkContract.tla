---------------------------- MODULE SinkContract ----------------------------
(***************************************************************************)
(* What a hyperloop asks of its sink (src/pkg/hyperloop/hyperloop.go:      *)
(* 36-61): done is called exactly once for a batch, and only when every    *)
(* event of the batch is durable; a batch that failed is never reported;   *)
(* Flush returns nil only when done has returned for every batch           *)
(* submitted in the run.                                                   *)
(***************************************************************************)
CONSTANT Batch

VARIABLES
    outcome,    \* outcome[b]: new, sent, failed or done
    durable,    \* durable[b]: every event of b is durable
    mine,       \* the batches submitted in the current run
    flush       \* the run's Flush: no (not returned), ok or err

contractVars == <<outcome, durable, mine, flush>>

Init ==
    /\ outcome = [b \in Batch |-> "new"]
    /\ durable = [b \in Batch |-> FALSE]
    /\ mine = {} /\ flush = "no"

(* A publisher of this or of an earlier run submits a batch. *)
Submit(b) ==
    /\ outcome[b] = "new"
    /\ outcome' = [outcome EXCEPT ![b] = "sent"]
    /\ mine' \in {mine, mine \cup {b}}
    /\ UNCHANGED <<durable, flush>>

Durable(b) ==
    /\ outcome[b] # "new"
    /\ durable' = [durable EXCEPT ![b] = TRUE]
    /\ UNCHANGED <<outcome, mine, flush>>

Done(b) ==
    /\ outcome[b] = "sent" /\ durable[b]
    /\ outcome' = [outcome EXCEPT ![b] = "done"]
    /\ UNCHANGED <<durable, mine, flush>>

Fail(b) ==
    /\ outcome[b] = "sent"
    /\ outcome' = [outcome EXCEPT ![b] = "failed"]
    /\ UNCHANGED <<durable, mine, flush>>

FlushReturns ==
    /\ flush = "no"
    /\ flush' \in {"ok", "err"}
    /\ flush' = "ok" => \A b \in mine : outcome[b] = "done"
    /\ UNCHANGED <<outcome, durable, mine>>

NewRun ==
    /\ mine' = {} /\ flush' = "no"
    /\ UNCHANGED <<outcome, durable>>

Next ==
    \/ \E b \in Batch : Submit(b) \/ Durable(b) \/ Done(b) \/ Fail(b)
    \/ FlushReturns \/ NewRun

Spec == Init /\ [][Next]_contractVars
=============================================================================
