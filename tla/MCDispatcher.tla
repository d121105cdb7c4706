---------------------------- MODULE MCDispatcher ----------------------------
(* Two queues and two events, of one key or of two.                        *)
EXTENDS Dispatcher

CONSTANTS a, b

OneOrTwoKeys == {[e \in Event |-> 1], [e \in Event |-> IF e = a THEN 1 ELSE 2]}
=============================================================================
