--------------------------- MODULE WorktreeProofs ---------------------------
(***************************************************************************)
(* Proofs about Worktree, for any number of agents, names and stamps.  An  *)
(* agent's changes move from its directory to a commit and from there to a *)
(* branch; the inductive invariant says for each command awaited how far   *)
(* they have come.  Agents share only the branches, which are never moved. *)
(***************************************************************************)
EXTENDS Worktree, TLAPS

Report == [hasChanges : BOOLEAN, branch : Names \cup {NoBranch}, path : BOOLEAN]

Before == {"idle", "creating"}

\* Where cleanup has not yet written down anything.
Unreported == Before \cup {"working", "status", "add", "commit", "branch", "branchStamped"}

\* A branch that is returned points at the commit of this agent.
ReportedBranch(a) ==
    report[a].branch # NoBranch =>
        report[a].branch \in exists /\ branches[report[a].branch] = {a}

Progress(a) ==
    /\ a \in edits => a \in dir
    /\ a \in saved => a \in dir \/ OnABranch(a)
    /\ pc[a] \in Before \cup {"refused", "working", "status", "add"} => a \notin saved
    /\ pc[a] \in Before => a \notin dir
    /\ pc[a] = "refused" => a \notin edits
    /\ pc[a] \in Awaits \ {"prune"} => a \in dir
    /\ pc[a] \in Unreported => report[a] = NoReport
    /\ pc[a] \in {"branch", "branchStamped", "remove", "prune"} => a \notin edits
    /\ pc[a] \in {"remove", "prune"} =>
          /\ a \in saved => OnABranch(a)
          /\ ReportedBranch(a)
          /\ ~report[a].hasChanges => a \notin saved
    /\ pc[a] = "done" =>
          /\ a \in dir <=> report[a].path
          /\ ReportedBranch(a)
          /\ ~report[a].hasChanges => a \notin edits \cup saved

IInv == TypeOK /\ \A a \in Agents : Progress(a)

-----------------------------------------------------------------------------
(* Lemmas.                                                                 *)

\* Branches stay where they are.
BranchesStay ==
    /\ exists \subseteq exists'
    /\ \A n \in exists : branches'[n] = branches[n]

\* A step of another agent does not set an agent back.
LEMMA OthersDoNotDisturb ==
    ASSUME IInv, NEW b \in Agents, BranchesStay,
           pc'[b] = pc[b], report'[b] = report[b],
           b \in dir' <=> b \in dir, b \in edits' <=> b \in edits, b \in saved' <=> b \in saved
    PROVE  Progress(b)'
<1>1. OnABranch(b) => OnABranch(b)'
  BY DEF OnABranch, BranchesStay
<1>2. ReportedBranch(b) => ReportedBranch(b)'
  BY DEF ReportedBranch, BranchesStay
<1> QED BY <1>1, <1>2 DEF IInv, Progress

\* git branch makes a branch of a new name or none.
LEMMA GitBranchMoves ==
    ASSUME TypeOK, NEW a \in Agents, NEW name \in Names, NEW ok \in BOOLEAN, NEW effect \in BOOLEAN,
           GitBranch(a, name, ok, effect)
    PROVE  /\ BranchesStay
           /\ branches' \in [Names -> SUBSET Agents]
           /\ exists' \subseteq Names
           /\ ok => name \in exists' /\ branches'[name] = {a}
<1>1. CASE effect
  BY <1>1 DEF GitBranch, BranchesStay, TypeOK
<1>2. CASE ~effect
  BY <1>2 DEF GitBranch, BranchesStay, TypeOK
<1> QED BY <1>1, <1>2

\* A step of one agent that changes only what is its own.
OnlyOwn(a) ==
    /\ \A b \in Agents : b # a =>
          /\ pc'[b] = pc[b] /\ report'[b] = report[b]
          /\ b \in dir' <=> b \in dir
          /\ b \in edits' <=> b \in edits
          /\ b \in saved' <=> b \in saved
    /\ BranchesStay

LEMMA StepOfOne ==
    ASSUME IInv, NEW a \in Agents, TypeOK', OnlyOwn(a), Progress(a)'
    PROVE  IInv'
<1>1. ASSUME NEW b \in Agents, b # a PROVE Progress(b)'
  BY <1>1, OthersDoNotDisturb DEF OnlyOwn
<1> QED BY <1>1 DEF IInv
\* cleanupWorktree returns a result.
LEMMA ReturnTypes ==
    ASSUME TypeOK, NEW a \in Agents, NEW hasChanges \in BOOLEAN, NEW branch \in Names \cup {NoBranch},
           NEW path \in BOOLEAN, Return(a, hasChanges, branch, path)
    PROVE  report' \in [Agents -> Report] /\ pc' \in [Agents -> PCs]
<1> DEFINE new == [hasChanges |-> hasChanges, branch |-> branch, path |-> path]
<1>1. new \in Report
  BY DEF Report
<1>2. report' = [report EXCEPT ![a] = new] /\ pc' = [pc EXCEPT ![a] = "done"]
  BY DEF Return, Goto
<1>3. report \in [Agents -> Report] /\ pc \in [Agents -> PCs] /\ "done" \in PCs
  BY DEF TypeOK, Report, PCs
<1> HIDE DEF new
<1> QED BY <1>1, <1>2, <1>3

\* What a step of one agent keeps when it leaves the branches alone.
LEMMA SameBranches == ASSUME unchangedGit PROVE BranchesStay
BY DEF unchangedGit, BranchesStay

-----------------------------------------------------------------------------
(* The invariant.                                                          *)

LEMMA InitIInv == Init => IInv
<1> SUFFICES ASSUME Init PROVE IInv
  OBVIOUS
<1>1. NoReport \in Report
  BY DEF NoReport, Report
<1>2. TypeOK
  BY <1>1, OldBranchesAssumption DEF Init, TypeOK, Report, PCs
<1>3. ASSUME NEW a \in Agents PROVE Progress(a)
  BY <1>3 DEF Init, Progress, Before, Awaits, Unreported
<1> QED BY <1>2, <1>3 DEF IInv

\* The steps until cleanup.
LEMMA WorkSteps ==
    ASSUME IInv, NEW a \in Agents,
           Create(a) \/ Created(a) \/ Edit(a) \/ CommitOwn(a) \/ Vanish(a) \/ Cleanup(a)
    PROVE  IInv'
<1> USE DEF Goto, unchangedWork, unchangedGit
<1>0. TypeOK /\ Progress(a)
  BY DEF IInv
<1>1. TypeOK'
  <2>1. CASE Create(a) BY <2>1, <1>0 DEF Create, TypeOK, PCs
  <2>2. CASE Created(a) BY <2>2, <1>0 DEF Created, TypeOK, PCs
  <2>3. CASE Edit(a) BY <2>3, <1>0 DEF Edit, TypeOK
  <2>4. CASE CommitOwn(a) BY <2>4, <1>0 DEF CommitOwn, TypeOK
  <2>5. CASE Vanish(a) BY <2>5, <1>0 DEF Vanish, TypeOK
  <2>6. CASE Cleanup(a)
    <3>1. CASE a \in dir BY <2>6, <3>1, <1>0 DEF Cleanup, TypeOK, PCs, Awaits
    <3>2. CASE a \notin dir
      <4>1. Return(a, FALSE, NoBranch, FALSE) BY <2>6, <3>2 DEF Cleanup
      <4>2. report' \in [Agents -> Report] /\ pc' \in [Agents -> PCs] BY <4>1, <1>0, ReturnTypes
      <4> QED BY <4>2, <2>6, <1>0 DEF Cleanup, TypeOK, Report
    <3> QED BY <3>1, <3>2
  <2> QED BY <2>1, <2>2, <2>3, <2>4, <2>5, <2>6
<1>2. unchangedGit
  BY DEF Create, Created, Edit, CommitOwn, Vanish, Cleanup
<1>3. OnlyOwn(a)
  <2>1. CASE Create(a) BY <2>1, <1>0, <1>2, SameBranches DEF Create, TypeOK, OnlyOwn
  <2>2. CASE Created(a) BY <2>2, <1>0, <1>2, SameBranches DEF Created, TypeOK, OnlyOwn
  <2>3. CASE Edit(a) BY <2>3, <1>0, <1>2, SameBranches DEF Edit, TypeOK, OnlyOwn
  <2>4. CASE CommitOwn(a) BY <2>4, <1>0, <1>2, SameBranches DEF CommitOwn, TypeOK, OnlyOwn
  <2>5. CASE Vanish(a) BY <2>5, <1>0, <1>2, SameBranches DEF Vanish, TypeOK, OnlyOwn
  <2>6. CASE Cleanup(a) BY <2>6, <1>0, <1>2, SameBranches DEF Cleanup, Return, TypeOK, OnlyOwn
  <2> QED BY <2>1, <2>2, <2>3, <2>4, <2>5, <2>6
<1>4. Progress(a)'
  <2> USE <1>0 DEF TypeOK, Progress, Before, Unreported, Awaits
  <2>1. CASE Create(a) BY <2>1 DEF Create
  <2>2. CASE Created(a) BY <2>2 DEF Created
  <2>3. CASE Edit(a) BY <2>3 DEF Edit
  <2>4. CASE CommitOwn(a) BY <2>4 DEF CommitOwn
  <2>5. CASE Vanish(a) BY <2>5 DEF Vanish
  <2>6. CASE Cleanup(a)
    <3>1. CASE a \in dir BY <2>6, <3>1 DEF Cleanup
    <3>2. CASE a \notin dir BY <2>6, <3>2 DEF Cleanup, Return, ReportedBranch
    <3> QED BY <3>1, <3>2
  <2> QED BY <2>1, <2>2, <2>3, <2>4, <2>5, <2>6
<1> QED BY <1>1, <1>3, <1>4, StepOfOne
\* The steps of cleanup until the commit is made.
LEMMA CommitSteps ==
    ASSUME IInv, NEW a \in Agents, Inspected(a) \/ Added(a) \/ Committed(a)
    PROVE  IInv'
<1> USE DEF Goto, unchangedWork, unchangedGit
<1>0. TypeOK /\ Progress(a)
  BY DEF IInv
<1>1. TypeOK'
  <2>1. ASSUME Return(a, TRUE, NoBranch, TRUE) PROVE report' \in [Agents -> Report] /\ pc' \in [Agents -> PCs]
    BY <2>1, <1>0, ReturnTypes
  <2>2. CASE Inspected(a)
    <3>1. CASE Return(a, TRUE, NoBranch, TRUE)
      BY <2>1, <2>2, <3>1, <1>0 DEF Inspected, TypeOK, Report
    <3>2. CASE pc' = [pc EXCEPT ![a] = IF a \in edits THEN "add" ELSE "remove"] /\ UNCHANGED report
      BY <2>2, <3>2, <1>0 DEF Inspected, TypeOK, PCs, Awaits
    <3> QED BY <2>2, <3>1, <3>2 DEF Inspected
  <2>3. CASE Added(a) BY <2>1, <2>3, <1>0 DEF Added, Preserve, TypeOK, PCs, Awaits, Report
  <2>4. CASE Committed(a)
    <3>1. report' \in [Agents -> Report] /\ pc' \in [Agents -> PCs]
      <4>1. CASE Preserve(a) BY <2>1, <4>1 DEF Preserve
      <4>2. CASE pc' = [pc EXCEPT ![a] = "branch"] /\ UNCHANGED report
        BY <4>2, <1>0 DEF TypeOK, PCs, Awaits, Report
      <4> QED BY <2>4, <4>1, <4>2 DEF Committed
    <3>2. edits' \subseteq Agents /\ saved' \subseteq Agents
      BY <2>4, <1>0 DEF Committed, TypeOK
    <3> QED BY <3>1, <3>2, <2>4, <1>0 DEF Committed, TypeOK, Report
  <2> QED BY <2>2, <2>3, <2>4
<1>2. OnlyOwn(a)
  <2>1. unchangedGit
    BY DEF Inspected, Added, Committed
  <2>2. CASE Inspected(a) BY <2>1, <2>2, <1>0, SameBranches DEF Inspected, Return, TypeOK, OnlyOwn
  <2>3. CASE Added(a) BY <2>1, <2>3, <1>0, SameBranches DEF Added, Preserve, Return, TypeOK, OnlyOwn
  <2>4. CASE Committed(a) BY <2>1, <2>4, <1>0, SameBranches DEF Committed, Preserve, Return, TypeOK, OnlyOwn
  <2> QED BY <2>2, <2>3, <2>4
<1>3. Progress(a)'
  <2> USE <1>0 DEF TypeOK, Progress, Before, Unreported, Awaits, Return, ReportedBranch
  <2>1. CASE Inspected(a)
    <3>1. CASE Return(a, TRUE, NoBranch, TRUE) BY <2>1, <3>1 DEF Inspected
    <3>2. CASE pc' = [pc EXCEPT ![a] = IF a \in edits THEN "add" ELSE "remove"] /\ UNCHANGED report
      BY <2>1, <3>2 DEF Inspected, NoReport
    <3> QED BY <2>1, <3>1, <3>2 DEF Inspected
  <2>2. CASE Added(a) BY <2>2 DEF Added, Preserve
  <2>3. CASE Committed(a) BY <2>3 DEF Committed, Preserve
  <2> QED BY <2>1, <2>2, <2>3
<1> QED BY <1>1, <1>2, <1>3, StepOfOne

\* A branch that was made is the agent's own, and goes into the report.
LEMMA BranchSteps ==
    ASSUME IInv, NEW a \in Agents, NEW name \in Names, NEW ok \in BOOLEAN, NEW effect \in BOOLEAN,
           NEW otherwise \in {"branchStamped", "done"},
           pc[a] \in {"branch", "branchStamped"},
           GitBranch(a, name, ok, effect), AfterBranch(a, name, ok, otherwise),
           unchangedWork, dir' = dir
    PROVE  IInv'
<1>0. TypeOK /\ Progress(a)
  BY DEF IInv
<1>1. /\ BranchesStay
      /\ branches' \in [Names -> SUBSET Agents]
      /\ exists' \subseteq Names
      /\ ok => name \in exists' /\ branches'[name] = {a}
  BY <1>0, GitBranchMoves
<1> DEFINE new == [[report[a] EXCEPT !.branch = name] EXCEPT !.hasChanges = TRUE]
<1>2. CASE ok
  <2>1. pc' = [pc EXCEPT ![a] = "remove"] /\ report' = [report EXCEPT ![a].branch = name, ![a].hasChanges = TRUE]
    BY <1>2 DEF AfterBranch, Goto
  <2>2. report[a] \in Report /\ report \in [Agents -> Report]
    BY <1>0 DEF TypeOK, Report
  <2>3. report' = [report EXCEPT ![a] = new] /\ new \in Report /\ new.branch = name /\ new.hasChanges
    BY <2>1, <2>2 DEF Report
  <2> HIDE DEF new
  <2>4. TypeOK'
    <3>1. report' \in [Agents -> Report]
      BY <2>2, <2>3
    <3>2. pc' \in [Agents -> PCs]
      BY <2>1, <1>0 DEF TypeOK, PCs, Awaits
    <3> QED BY <3>1, <3>2, <1>0, <1>1 DEF TypeOK, Report, unchangedWork
  <2>5. OnlyOwn(a)
    BY <2>1, <2>2, <2>3, <1>0, <1>1 DEF TypeOK, OnlyOwn, unchangedWork
  <2>6. pc'[a] = "remove" /\ report'[a] = new
    BY <2>1, <2>2, <2>3, <1>0 DEF TypeOK
  <2>7. OnABranch(a)'
    BY <1>1, <1>2 DEF OnABranch
  <2>8. ReportedBranch(a)'
    BY <2>6, <2>3, <1>1, <1>2 DEF ReportedBranch
  <2>9. Progress(a)'
    BY <2>6, <2>7, <2>8, <2>3, <1>0 DEF Progress, Before, Unreported, Awaits, unchangedWork
  <2> QED BY <2>4, <2>5, <2>9, StepOfOne
<1>3. CASE ~ok /\ otherwise = "done"
  <2>1. Return(a, TRUE, NoBranch, TRUE)
    BY <1>3 DEF AfterBranch, Preserve
  <2>2. report' \in [Agents -> Report] /\ pc' \in [Agents -> PCs]
    BY <2>1, <1>0, ReturnTypes
  <2>3. TypeOK'
    BY <2>2, <1>0, <1>1 DEF TypeOK, Report, unchangedWork
  <2>4. OnlyOwn(a)
    BY <2>1, <1>0, <1>1 DEF TypeOK, OnlyOwn, unchangedWork, Return, Goto
  <2>5. Progress(a)'
    BY <2>1, <1>0 DEF TypeOK, Progress, Before, Unreported, Awaits, unchangedWork, Return, Goto, ReportedBranch
  <2> QED BY <2>3, <2>4, <2>5, StepOfOne
<1>4. CASE ~ok /\ otherwise = "branchStamped"
  <2>1. pc' = [pc EXCEPT ![a] = "branchStamped"] /\ UNCHANGED report
    BY <1>4 DEF AfterBranch, Goto
  <2>2. TypeOK'
    BY <2>1, <1>0, <1>1 DEF TypeOK, PCs, Awaits, unchangedWork
  <2>3. OnlyOwn(a)
    BY <2>1, <1>0, <1>1 DEF TypeOK, OnlyOwn, unchangedWork
  <2>4. Progress(a)'
    BY <2>1, <1>0 DEF TypeOK, Progress, Before, Unreported, Awaits, unchangedWork
  <2> QED BY <2>2, <2>3, <2>4, StepOfOne
<1> QED BY <1>2, <1>3, <1>4
\* After the prune the answer is whether the directory is there.
LEMMA PruneAnswers ==
    ASSUME NEW a \in Agents, PruneReturns(a)
    PROVE  \E there \in BOOLEAN : Removed(a, there) /\ (a \in dir' <=> there)
<1> DEFINE there == a \in dir
<1>1. there \in BOOLEAN
  OBVIOUS
<1>2. Removed(a, there) /\ (a \in dir' <=> there)
  BY DEF PruneReturns
<1> HIDE DEF there
<1> QED BY <1>1, <1>2

\* The steps that take the worktree away.
LEMMA RemoveSteps ==
    ASSUME IInv, NEW a \in Agents, RemoveReturns(a) \/ PruneReturns(a)
    PROVE  IInv'
<1> USE DEF unchangedWork, unchangedGit
<1>0. TypeOK /\ Progress(a) /\ report[a] \in Report
  BY DEF IInv, TypeOK, Report
<1>1. ASSUME NEW there \in BOOLEAN, Removed(a, there)
      PROVE  report' \in [Agents -> Report] /\ pc' \in [Agents -> PCs]
  <2>1. Return(a, report[a].hasChanges, report[a].branch, there)
    BY <1>1 DEF Removed
  <2>2. report[a].hasChanges \in BOOLEAN /\ report[a].branch \in Names \cup {NoBranch}
    BY <1>0 DEF Report
  <2> QED BY <2>1, <2>2, <1>0, <1>1, ReturnTypes
<1>2. TypeOK'
  <2>1. CASE RemoveReturns(a)
    <3>1. report' \in [Agents -> Report] /\ pc' \in [Agents -> PCs]
      <4>1. CASE Removed(a, FALSE) BY <4>1, <1>1
      <4>2. CASE pc' = [pc EXCEPT ![a] = "prune"] /\ UNCHANGED report
        BY <4>2, <1>0 DEF TypeOK, PCs, Awaits, Report
      <4> QED BY <2>1, <4>1, <4>2 DEF RemoveReturns, Goto
    <3>2. dir' \subseteq Agents
      BY <2>1, <1>0 DEF RemoveReturns, TypeOK
    <3> QED BY <3>1, <3>2, <2>1, <1>0 DEF RemoveReturns, TypeOK, Report
  <2>2. CASE PruneReturns(a)
    <3>1. report' \in [Agents -> Report] /\ pc' \in [Agents -> PCs]
      BY <2>2, <1>1, PruneAnswers
    <3> QED BY <3>1, <2>2, <1>0 DEF PruneReturns, TypeOK, Report
  <2> QED BY <2>1, <2>2
<1>3. OnlyOwn(a)
  <2>1. unchangedGit
    BY DEF RemoveReturns, PruneReturns
  <2>2. CASE RemoveReturns(a)
    BY <2>1, <2>2, <1>0, SameBranches DEF RemoveReturns, Removed, Return, Goto, TypeOK, OnlyOwn
  <2>3. CASE PruneReturns(a)
    BY <2>1, <2>3, <1>0, SameBranches DEF PruneReturns, Removed, Return, Goto, TypeOK, OnlyOwn
  <2> QED BY <2>2, <2>3
<1>4. Progress(a)'
  <2>1. (OnABranch(a) <=> OnABranch(a)') /\ edits' = edits /\ saved' = saved
        /\ exists' = exists /\ branches' = branches
    BY DEF RemoveReturns, PruneReturns, OnABranch
  <2>2. ASSUME pc[a] \in {"remove", "prune"}, NEW there \in BOOLEAN, Removed(a, there), a \in dir' <=> there
        PROVE  Progress(a)'
    <3>1. /\ pc'[a] = "done"
          /\ report'[a].hasChanges = report[a].hasChanges
          /\ report'[a].branch = report[a].branch
          /\ report'[a].path = there
      BY <2>2, <1>0 DEF Removed, Return, Goto, TypeOK
    <3>2. ReportedBranch(a)'
      BY <2>1, <2>2, <3>1, <1>0 DEF ReportedBranch, Progress
    <3> QED BY <2>1, <2>2, <3>1, <3>2, <1>0 DEF Progress, Before, Unreported, Awaits
  <2>3. CASE RemoveReturns(a)
    <3>1. CASE Removed(a, FALSE) /\ a \notin dir'
      BY <2>2, <2>3, <3>1 DEF RemoveReturns
    <3>2. CASE pc' = [pc EXCEPT ![a] = "prune"] /\ UNCHANGED report
      <4>1. pc[a] = "remove" /\ pc'[a] = "prune" /\ report'[a] = report[a]
        BY <2>3, <3>2, <1>0 DEF RemoveReturns, TypeOK
      <4>2. ReportedBranch(a)'
        BY <2>1, <4>1, <1>0 DEF ReportedBranch, Progress
      <4> QED BY <2>1, <4>1, <4>2, <1>0 DEF Progress, Before, Unreported, Awaits
    <3> QED BY <2>3, <3>1, <3>2 DEF RemoveReturns, Goto
  <2>4. CASE PruneReturns(a)
    <3>1. PICK there \in BOOLEAN : Removed(a, there) /\ (a \in dir' <=> there)
      BY <2>4, PruneAnswers
    <3> QED BY <2>2, <2>4, <3>1 DEF PruneReturns
  <2> QED BY <2>3, <2>4
<1> QED BY <1>2, <1>3, <1>4, StepOfOne

\* Nothing of an agent that died was in progress any more.
LEMMA CrashStep == ASSUME IInv, Crash PROVE IInv'
<1>1. TypeOK'
  BY DEF IInv, Crash, TypeOK, PCs, unchangedWork, unchangedGit
<1>2. ASSUME NEW a \in Agents PROVE Progress(a)'
  <2>1. (OnABranch(a) <=> OnABranch(a)') /\ (ReportedBranch(a) <=> ReportedBranch(a)')
    BY DEF Crash, unchangedWork, unchangedGit, OnABranch, ReportedBranch
  <2>2. pc'[a] = "dead" \/ pc'[a] = pc[a]
    BY DEF Crash
  <2> QED BY <2>1, <2>2 DEF IInv, Progress, Before, Unreported, Awaits, Crash, unchangedWork
<1> QED BY <1>1, <1>2 DEF IInv

\* Every step keeps the order in which changes reach a commit, a branch and the
\* report, whatever command of whichever agent fails.
THEOREM ProgressHolds == Spec => []IInv
<1>1. IInv /\ [Next]_vars => IInv'
  <2> SUFFICES ASSUME IInv, [Next]_vars PROVE IInv'
    OBVIOUS
  <2>1. ASSUME NEW a \in Agents, Branched(a) PROVE IInv'
    <3>1. PICK ok \in BOOLEAN, effect \in BOOLEAN :
             /\ GitBranch(a, <<Component[a], 0>>, ok, effect)
             /\ AfterBranch(a, <<Component[a], 0>>, ok, "branchStamped")
      BY <2>1 DEF Branched
    <3>2. <<Component[a], 0>> \in Names
      BY ComponentAssumption DEF Names
    <3> QED BY <2>1, <3>1, <3>2, BranchSteps DEF Branched
  <2>2. ASSUME NEW a \in Agents, BranchedStamped(a) PROVE IInv'
    <3>1. PICK ok \in BOOLEAN, effect \in BOOLEAN, stamp \in Stamps :
             /\ GitBranch(a, <<Component[a], stamp>>, ok, effect)
             /\ AfterBranch(a, <<Component[a], stamp>>, ok, "done")
      BY <2>2 DEF BranchedStamped
    <3>2. <<Component[a], stamp>> \in Names
      BY ComponentAssumption DEF Names
    <3> QED BY <2>2, <3>1, <3>2, BranchSteps DEF BranchedStamped
  <2>3. CASE UNCHANGED vars
    <3>1. TypeOK' BY <2>3 DEF IInv, TypeOK, vars
    <3>2. ASSUME NEW a \in Agents PROVE Progress(a)'
      BY <2>3, <3>2 DEF IInv, Progress, vars, OnABranch, ReportedBranch
    <3> QED BY <3>1, <3>2 DEF IInv
  <2> QED BY <2>1, <2>2, <2>3, WorkSteps, CommitSteps, RemoveSteps, CrashStep DEF Next, Cleaning
<1> QED BY <1>1, InitIInv, PTL DEF Spec

-----------------------------------------------------------------------------
(* The properties.                                                         *)

\* No command that fails, before or after its effect, and no crash loses what
\* an agent left uncommitted.
THEOREM ChangesKept == Spec => []ChangesAreKept
<1>1. IInv => ChangesAreKept
  BY DEF IInv, Progress, ChangesAreKept
<1> QED BY <1>1, ProgressHolds, PTL

\* What cleanupWorktree returned stays true whatever the other agents do.
THEOREM ReportsAreTrue == Spec => []ReportIsTrue
<1>1. IInv => ReportIsTrue
  BY DEF IInv, Progress, ReportIsTrue, ReportedBranch
<1> QED BY <1>1, ProgressHolds, PTL
=============================================================================
