---------------------------- MODULE MCHyperloop ----------------------------
(* Instances of Hyperloop: the rows, their transactions and their queues.  *)
EXTENDS Hyperloop

\* Three rows in two transactions: rows 1 and 2, then row 3.
BaseThree == [r \in 1..3 |-> IF r = 3 THEN 2 ELSE 0]
\* Two rows, each a transaction.
BaseTwo == [r \in 1..2 |-> r - 1]

\* Three rows with one key, two rows with one key.
OneKeyThree == {[r \in 1..3 |-> "q1"]}
OneKeyTwo == {[r \in 1..2 |-> "q1"]}
\* Two rows with two keys.
TwoKeys == {[r \in 1..2 |-> IF r = 1 THEN "q1" ELSE "q2"]}
\* Two rows, with one key or with two.
AnyKeys == OneKeyTwo \cup TwoKeys
=============================================================================
