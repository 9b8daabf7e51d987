---------------------------- MODULE MCDomainPool ----------------------------
(* Two launchers that share the global pool of two workers. *)
EXTENDS DomainPool

CONSTANTS w1, w2, l1, l2

MCWorkers == {w1, w2}
MCLaunchers == {l1, l2}
=============================================================================
