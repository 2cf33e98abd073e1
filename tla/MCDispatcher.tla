---------------------------- MODULE MCDispatcher ----------------------------
(***************************************************************************)
(* Instances of Dispatcher for TLC: what the configurations share.         *)
(***************************************************************************)
EXTENDS Dispatcher, TLC

Interchangeable == Permutations(Dispatchers)
=============================================================================
