---------------------------- MODULE MCScheduler ----------------------------
(* A small instance of Scheduler for TLC.                                  *)
EXTENDS Scheduler, TLC

CONSTANTS every, soon, r1, r2, c1, s1

MCSymmetry == Permutations({r1, r2})
=============================================================================
