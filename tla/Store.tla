------------------------------- MODULE Store --------------------------------
(***************************************************************************)
(* What module Hyperloop takes a state store to be (state.Store,           *)
(* src/pkg/state/store.go:12-20): it holds one position, the zero Position *)
(* until something is saved; a Save that returns nil has replaced it; one  *)
(* that failed, or whose process died, may replace it then or later; Load  *)
(* returns what is held.                                                   *)
(***************************************************************************)
CONSTANTS
    Position,   \* the positions of a stream
    Zero        \* the zero Position

VARIABLES
    held,       \* the position in the store
    handed,     \* the positions ever handed to Save
    call,       \* the call in progress, and the position to save
    loaded      \* what the last Load of this process returned

storeVars == <<held, handed, call, loaded>>

NoCall == [op |-> "none", pos |-> Zero]

Init == held = Zero /\ handed = {} /\ call = NoCall /\ loaded = Zero

Load ==
    /\ call = NoCall /\ call' = [op |-> "load", pos |-> Zero]
    /\ UNCHANGED <<held, handed, loaded>>

Save(p) ==
    /\ call = NoCall /\ call' = [op |-> "save", pos |-> p]
    /\ handed' = handed \cup {p}
    /\ UNCHANGED <<held, loaded>>

LoadReturns ==
    /\ call.op = "load" /\ call' = NoCall
    /\ loaded' = held
    /\ UNCHANGED <<held, handed>>

SaveReturns ==
    /\ call.op = "save" /\ call' = NoCall
    /\ held' = call.pos
    /\ UNCHANGED <<handed, loaded>>

(* A call reports an error, or the process dies. *)
Fails ==
    /\ call' = NoCall /\ loaded' \in {loaded, Zero}
    /\ UNCHANGED <<held, handed>>

(* A Save that failed, or that was retried, takes effect. *)
TakesEffect ==
    /\ held' \in handed
    /\ UNCHANGED <<handed, call, loaded>>

Next ==
    \/ Load \/ LoadReturns \/ (\E p \in Position : Save(p)) \/ SaveReturns
    \/ Fails \/ TakesEffect

Spec == Init /\ [][Next]_storeVars
=============================================================================
