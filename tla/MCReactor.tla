----------------------------- MODULE MCReactor -----------------------------
(* Instances of Reactor for TLC: sets of request kinds for the runs. *)
EXTENDS Reactor, TLC

WorkerSymmetry == Permutations(Workers)
=============================================================================
