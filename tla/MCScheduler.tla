---------------------------- MODULE MCScheduler ----------------------------
(* Instances of Scheduler for TLC: the attributes of the core ops. *)
EXTENDS Scheduler

CONSTANTS A, B, C

Ones == [op \in CoreOps |-> 1]
Twos == [op \in CoreOps |-> 2]
Threes == [op \in CoreOps |-> 3]
TwoOfA == [op \in CoreOps |-> IF op = A THEN 2 ELSE 1]
=============================================================================
