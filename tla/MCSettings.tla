----------------------------- MODULE MCSettings -----------------------------
(* Two files a user may write by hand.                                     *)
EXTENDS Settings, TLC

CONSTANTS p1, p2, m1, agents

Own == [Nothing EXCEPT !.subagentModel = m1, !.limit[agents] = 1, !.defaultMaxTurns = 0]
Old == [Nothing EXCEPT !.alias[agents] = 2, !.maxConcurrent = 3]
MCHandFiles == {Own, Old}
Symmetry == Permutations(Processes)
=============================================================================
