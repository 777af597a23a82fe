----------------------------- MODULE MCWorktree -----------------------------
(* Small instances of Worktree for TLC.                                    *)
EXTENDS Worktree, TLC

CONSTANTS a1, a2, name

\* Two ids that sanitizeAgentId maps to one branch name, and none of that name at first.
MCComponent == (a1 :> name) @@ (a2 :> name)
=============================================================================
