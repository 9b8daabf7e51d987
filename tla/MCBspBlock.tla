----------------------------- MODULE MCBspBlock -----------------------------
(* Blocks of threads that reach up to MaxBarriers barriers each, in either variant. *)
EXTENDS BspBlock
=============================================================================
