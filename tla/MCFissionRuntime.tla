-------------------------- MODULE MCFissionRuntime --------------------------
(* Launch queues and their pools; the number of queues is given in the .cfg files. *)
EXTENDS FissionRuntime

CONSTANTS c1, q1, q2

MCOneClient == {c1}
MCOneQueue == {q1}
MCTwoQueues == {q1, q2}
MCTwoLaunches == 1..2
=============================================================================
