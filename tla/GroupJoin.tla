------------------------------ MODULE GroupJoin ------------------------------
(***************************************************************************)
(* One group of GroupJoinManager (src/group-join.ts), as a value and the   *)
(* functions that its methods compute.  A group is fixed when the batch is *)
(* finalised; it delivers once when all members have completed, and before *)
(* that whenever its timer fires.                                          *)
(*                                                                         *)
(* The retries of deliver() are left out: the callback index.ts passes in  *)
(* schedules the message and repaints; it does not fail before scheduling. *)
(***************************************************************************)
EXTENDS Naturals, FiniteSets

\* open: in this.groups.          members: group.agentIds.
\* tracked: its ids in agentToGroup.  done: group.completedRecords.
\* timer: timeoutHandle is set.
GroupState(Ids) ==
    [open : BOOLEAN, members : SUBSET Ids, tracked : SUBSET Ids,
     done : SUBSET Ids, timer : BOOLEAN]

NoGroup == [open |-> FALSE, members |-> {}, tracked |-> {}, done |-> {}, timer |-> FALSE]

RegisterGroup(S) ==
    [open |-> TRUE, members |-> S, tracked |-> S, done |-> {}, timer |-> FALSE]

\* onAgentComplete does not answer "pass".
GroupTakes(g, a) == g.open /\ a \in g.tracked

\* The completions of A, one after the other, are the last ones the group waits
\* for.  deliver(group, false) then clears the timer, and cleanupGroup forgets all.
GroupFull(g, A) == Cardinality(g.done \cup A) >= Cardinality(g.members)

\* Mutant: the completions are recorded and no timer is started.
GroupWithoutTimer(g, A) == [g EXCEPT !.done = @ \cup A]

\* The group holds the results and sees to it that the timer runs.
GroupHolds(g, A) == [g EXCEPT !.done = @ \cup A, !.timer = TRUE]

\* Mutant: the delivered results stay in the group.
GroupKeepsDelivered(g) == [g EXCEPT !.members = @ \ g.done, !.tracked = @ \ g.done, !.timer = FALSE]

\* onTimeout: what is there is delivered, the group goes on with the others.
GroupTimesOut(g) ==
    [g EXCEPT !.members = @ \ g.done, !.tracked = @ \ g.done, !.done = {}, !.timer = FALSE]
=============================================================================
