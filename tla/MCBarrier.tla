----------------------------- MODULE MCBarrier -------------------------------
(***************************************************************************)
(* The barrier on a small instance; threads are interchangeable.            *)
(***************************************************************************)
EXTENDS Barrier, TLC

BarrierSymmetry == Permutations(Threads)

==============================================================================
