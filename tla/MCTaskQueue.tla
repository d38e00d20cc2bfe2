---------------------------- MODULE MCTaskQueue ----------------------------
(***************************************************************************)
(* TaskQueue for TLC: the addresses of tasks are interchangeable.          *)
(***************************************************************************)
EXTENDS TaskQueue, TLC

Symmetry == Permutations(Tasks)
=============================================================================
