------------------------------ MODULE Worktree ------------------------------
(***************************************************************************)
(* The git worktrees agents run in (src/worktree.ts): createWorktree, the  *)
(* agent at work in it, and cleanupWorktree, which must leave the agent's  *)
(* changes on a branch or in the directory.  Every git command may fail,   *)
(* also by its timeout after it has done its work, and the process may die *)
(* between two commands.  All agents share one repository.  An action is   *)
(* one command with the code up to the next one: pc names the command that *)
(* is awaited.                                                             *)
(***************************************************************************)
EXTENDS Naturals

CONSTANTS
    Agents,       \* the ids createWorktree is called with
    Component,    \* sanitizeAgentId: the component of the branch name of each id
    Components,   \* the components there are
    OldBranches,  \* branches of those names that are there already
    Stamps        \* the values Date.now() may have, all greater than 0

ASSUME ComponentAssumption == Component \in [Agents -> Components]
ASSUME StampsAssumption == Stamps \subseteq Nat \ {0}

\* pi-agent-<component>, with -<stamp> when stamp is not 0.
Names == Components \X (Stamps \cup {0})

ASSUME OldBranchesAssumption == OldBranches \subseteq Names

VARIABLES
    pc,         \* the command awaited for each agent
    dir,        \* agents whose worktree directory exists
    edits,      \* agents with uncommitted changes in their directory
    own,        \* agents that committed to the detached HEAD themselves
    saved,      \* agents whose changes cleanup committed to the detached HEAD
    branches,   \* for each name: the agents whose HEAD a branch of it points at
    exists,     \* the names that are branches
    report      \* what cleanupWorktree returned

vars == <<pc, dir, edits, own, saved, branches, exists, report>>

Awaits == {"status", "add", "commit", "branch", "branchStamped", "remove", "prune"}
PCs    == {"idle", "creating", "refused", "working", "done", "dead"} \cup Awaits

NoBranch  == <<"none", 0>>
NoReport  == [hasChanges |-> FALSE, branch |-> NoBranch, path |-> FALSE]
-----------------------------------------------------------------------------
Init ==
    /\ pc = [a \in Agents |-> "idle"]
    /\ dir = {} /\ edits = {} /\ own = {} /\ saved = {}
    /\ branches = [n \in Names |-> {}]
    /\ exists = OldBranches
    /\ report = [a \in Agents |-> NoReport]

Goto(a, place) == pc' = [pc EXCEPT ![a] = place]

\* cleanupWorktree returns.
Return(a, hasChanges, branch, path) ==
    /\ Goto(a, "done")
    /\ report' = [report EXCEPT ![a] =
                    [hasChanges |-> hasChanges, branch |-> branch, path |-> path]]

unchangedWork == UNCHANGED <<edits, own, saved>>
unchangedGit  == UNCHANGED <<branches, exists>>

\* There is no repository, or it has no commit; otherwise git worktree add.
Create(a) == \E repository \in BOOLEAN :
    /\ pc[a] = "idle"
    /\ Goto(a, IF repository THEN "creating" ELSE "refused")
    /\ unchangedWork /\ unchangedGit /\ UNCHANGED <<dir, report>>

\* git worktree add returns; a failure may leave the directory behind.
Created(a) == \E ok, there \in BOOLEAN :
    /\ pc[a] = "creating"
    /\ ok => there
    /\ Goto(a, IF ok THEN "working" ELSE "refused")
    /\ dir' = IF there THEN dir \cup {a} ELSE dir
    /\ unchangedWork /\ unchangedGit /\ UNCHANGED report

\* The agent changes files, or commits all it has changed.
Edit(a) ==
    /\ pc[a] = "working" /\ a \in dir
    /\ edits' = edits \cup {a}
    /\ unchangedGit /\ UNCHANGED <<pc, dir, own, saved, report>>

CommitOwn(a) ==
    /\ pc[a] = "working" /\ a \in dir /\ a \in edits
    /\ edits' = edits \ {a}
    /\ own' = own \cup {a}
    /\ unchangedGit /\ UNCHANGED <<pc, dir, saved, report>>

\* The agent, or whoever clears the temporary directory, deletes the worktree.
Vanish(a) ==
    /\ pc[a] = "working" /\ a \in dir
    /\ dir' = dir \ {a} /\ edits' = edits \ {a} /\ own' = own \ {a}
    /\ unchangedGit /\ UNCHANGED <<pc, saved, report>>

\* The run is over: cleanupWorktree.
Cleanup(a) ==
    /\ pc[a] = "working"
    /\ IF a \in dir THEN Goto(a, "status") /\ UNCHANGED report
                    ELSE Return(a, FALSE, NoBranch, FALSE)
    /\ unchangedWork /\ unchangedGit /\ UNCHANGED dir

\* Mutant: a worktree that cannot be inspected is taken for a clean one.
InspectedHopefully(a) == \E ok \in BOOLEAN :
    /\ pc[a] = "status"
    /\ Goto(a, IF ok /\ a \in edits THEN "add" ELSE "remove")
    /\ unchangedWork /\ unchangedGit /\ UNCHANGED <<dir, report>>

\* git status --porcelain returns.
Inspected(a) == \E ok \in BOOLEAN :
    /\ pc[a] = "status"
    /\ \/ ~ok /\ Return(a, TRUE, NoBranch, TRUE)
       \/ ok /\ Goto(a, IF a \in edits THEN "add" ELSE "remove") /\ UNCHANGED report
    /\ unchangedWork /\ unchangedGit /\ UNCHANGED dir

\* The catch of the commit block: the worktree stays where it is.
Preserve(a) == Return(a, TRUE, NoBranch, TRUE)

Added(a) == \E ok \in BOOLEAN :
    /\ pc[a] = "add"
    /\ \/ ok /\ Goto(a, "commit") /\ UNCHANGED report
       \/ ~ok /\ Preserve(a)
    /\ unchangedWork /\ unchangedGit /\ UNCHANGED dir

\* git commit returns; it may fail after it has committed.
Committed(a) == \E ok, effect \in BOOLEAN :
    /\ pc[a] = "commit"
    /\ ok => effect
    /\ \/ ok /\ Goto(a, "branch") /\ UNCHANGED report
       \/ ~ok /\ Preserve(a)
    /\ edits' = IF effect THEN edits \ {a} ELSE edits
    /\ saved' = IF effect THEN saved \cup {a} ELSE saved
    /\ unchangedGit /\ UNCHANGED <<dir, own>>

\* git branch -- name, at the worktree's HEAD: it fails when the name is taken,
\* or for any other reason, then with or without the branch being made.
GitBranch(a, name, ok, effect) ==
    /\ ok => effect
    /\ effect => name \notin exists
    /\ branches' = IF effect THEN [branches EXCEPT ![name] = {a}] ELSE branches
    /\ exists' = IF effect THEN exists \cup {name} ELSE exists

AfterBranch(a, name, ok, otherwise) ==
    \/ /\ ok
       /\ Goto(a, "remove")
       /\ report' = [report EXCEPT ![a].branch = name, ![a].hasChanges = TRUE]
    \/ ~ok /\ otherwise = "done" /\ Preserve(a)
    \/ ~ok /\ otherwise # "done" /\ Goto(a, otherwise) /\ UNCHANGED report

Branched(a) == \E ok, effect \in BOOLEAN :
    /\ pc[a] = "branch"
    /\ GitBranch(a, <<Component[a], 0>>, ok, effect)
    /\ AfterBranch(a, <<Component[a], 0>>, ok, "branchStamped")
    /\ unchangedWork /\ UNCHANGED dir

BranchedStamped(a) == \E ok, effect \in BOOLEAN, stamp \in Stamps :
    /\ pc[a] = "branchStamped"
    /\ GitBranch(a, <<Component[a], stamp>>, ok, effect)
    /\ AfterBranch(a, <<Component[a], stamp>>, ok, "done")
    /\ unchangedWork /\ UNCHANGED dir

\* removeWorktree answers whether the directory is gone; report holds already
\* what the commit block found.
Removed(a, there) == Return(a, report[a].hasChanges, report[a].branch, there)

\* git worktree remove --force returns.
RemoveReturns(a) == \E ok, there \in BOOLEAN :
    /\ pc[a] = "remove"
    /\ ok => ~there
    /\ dir' = IF there THEN dir ELSE dir \ {a}
    /\ IF ok THEN Removed(a, FALSE) ELSE Goto(a, "prune") /\ UNCHANGED report
    /\ unchangedWork /\ unchangedGit

\* Mutant: a failed removal is not looked at again after the prune.
PruneReturnsHopefully(a) ==
    /\ pc[a] = "prune"
    /\ Removed(a, FALSE)
    /\ unchangedWork /\ unchangedGit /\ UNCHANGED dir

\* git worktree prune forgets directories that are gone, and removes none.
PruneReturns(a) ==
    /\ pc[a] = "prune"
    /\ Removed(a, a \in dir)
    /\ unchangedWork /\ unchangedGit /\ UNCHANGED dir

\* The process dies; the commands that ran for it are not followed any more.
Crash ==
    /\ \E a \in Agents : pc[a] \in Awaits \cup {"creating", "working"}
    /\ pc' = [a \in Agents |-> IF pc[a] \in {"idle", "refused", "done"} THEN pc[a] ELSE "dead"]
    /\ unchangedWork /\ unchangedGit /\ UNCHANGED <<dir, report>>
-----------------------------------------------------------------------------
Cleaning(a) ==
    Inspected(a) \/ Added(a) \/ Committed(a) \/ Branched(a) \/ BranchedStamped(a)
    \/ RemoveReturns(a) \/ PruneReturns(a)

Next ==
    \/ \E a \in Agents : \/ Create(a) \/ Created(a) \/ Edit(a) \/ CommitOwn(a) \/ Vanish(a)
                         \/ Cleanup(a) \/ Cleaning(a)
    \/ Crash

Spec == Init /\ [][Next]_vars
-----------------------------------------------------------------------------
TypeOK ==
    /\ pc \in [Agents -> PCs]
    /\ {dir, edits, own, saved} \subseteq SUBSET Agents
    /\ branches \in [Names -> SUBSET Agents]
    /\ exists \subseteq Names
    /\ report \in [Agents -> [hasChanges : BOOLEAN, branch : Names \cup {NoBranch}, path : BOOLEAN]]

OnABranch(a) == \E n \in exists : a \in branches[n]

\* Changes an agent left uncommitted are in its directory or on a branch at
\* every moment, whatever command failed and wherever the process died.
ChangesAreKept ==
    \A a \in Agents : a \in edits \cup saved => a \in dir \/ OnABranch(a)

\* What cleanupWorktree returned tells where to look: a directory is left if and
\* only if its path is returned, a branch that is returned holds the agent's own
\* commit, and "no changes" leaves nothing of what cleanup committed.
ReportIsTrue ==
    \A a \in Agents : pc[a] = "done" =>
        /\ a \in dir <=> report[a].path
        /\ report[a].branch # NoBranch =>
             report[a].branch \in exists /\ branches[report[a].branch] = {a}
        /\ ~report[a].hasChanges => a \notin edits \cup saved
=============================================================================
