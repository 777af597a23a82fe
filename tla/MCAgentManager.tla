--------------------------- MODULE MCAgentManager ---------------------------
(* Small instances of AgentManager for TLC.                                *)
EXTENDS AgentManager, TLC

Kind(bg, wt, bypass, preAborted) ==
    [bg |-> bg, wt |-> wt, bypass |-> bypass, preAborted |-> preAborted]

\* Worktrees, bypassing and signals that are aborted already, with and without
\* a background record.
MCAllKinds == {Kind(TRUE, FALSE, FALSE, FALSE), Kind(TRUE, TRUE, FALSE, FALSE),
               Kind(TRUE, FALSE, TRUE, FALSE), Kind(FALSE, TRUE, FALSE, FALSE),
               Kind(TRUE, FALSE, FALSE, TRUE), Kind(TRUE, TRUE, FALSE, TRUE),
               Kind(FALSE, TRUE, FALSE, TRUE)}

\* Background agents: queued, in a worktree, and fired by the scheduler.
MCBackgroundKinds == {Kind(TRUE, FALSE, FALSE, FALSE), Kind(TRUE, TRUE, FALSE, FALSE),
                      Kind(TRUE, FALSE, TRUE, FALSE)}

\* The ids of the agents are interchangeable.
MCSymmetry == Permutations(Agents)
=============================================================================
