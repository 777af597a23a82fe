---------------------------- MODULE MCDelivery ----------------------------
(* Small instances of Delivery for TLC.                                    *)
EXTENDS Delivery, TLC

\* The agents nobody waits for are interchangeable.
MCSymmetry == Permutations(Agents \ Watched)
=============================================================================
