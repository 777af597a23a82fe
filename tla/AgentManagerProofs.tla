------------------------- MODULE AgentManagerProofs -------------------------
(***************************************************************************)
(* Safety of AgentManager for any set of agents, any kinds of spawn and    *)
(* any limits.  The queue and the slot counter are related through the     *)
(* pc of the agents: QueueExact says who waits, SlotAccounting who holds a *)
(* slot, and the conjuncts below say what the statuses may be meanwhile.   *)
(***************************************************************************)
EXTENDS AgentManager, FiniteSetTheorems, SequenceTheorems, TLAPS

\* A group of variables, seen through everywhere.
USE DEF usage

\* Startup of a dequeued agent runs with the record queued or stopped.
SetupStatus == \A a \in Agents : pc[a] = "setupDequeued" => status[a] \in {"queued", "stopped"}

\* Only an agent whose run has started is ever resumed.
ResumingRan == \A a \in resuming : MayHaveSession(a)

\* A tracked record is "queued" before its run only.
QueuedHasNotRun ==
    \A a \in inMap : status[a] = "queued" => pc[a] \in {"waiting", "setup", "setupDequeued"}

\* How often an agent has been reported, by where it is.
Reports ==
    \A a \in Agents :
        /\ pc[a] \in {"unborn", "waiting", "running", "cleanup"} => completions[a] = 0
        /\ InSetup(a) => completions[a] = 0 \/ status[a] = "stopped"
        /\ pc[a] = "ended" => completions[a] = (IF args[a].bg THEN 1 ELSE 0)

IInv ==
    /\ TypeOK
    /\ QueueExact
    /\ SlotAccounting
    /\ NoIdleSlot
    /\ OpenGateIsServed
    /\ SetupStatus
    /\ ResumingRan
    /\ QueuedHasNotRun
    /\ Reports

-----------------------------------------------------------------------------
(* What drainQueue does, as a set of agents instead of a prefix.           *)

\* Exactly the agents of S, all waiting, leave the queue.
Drained(rb, st, p, limit, S) ==
    /\ S \subseteq {a \in Agents : p[a] = "waiting"}
    /\ queue' \in Seq(Agents)
    /\ \A i, j \in 1..Len(queue') : queue'[i] = queue'[j] => i = j
    /\ {queue'[i] : i \in 1..Len(queue')} = {a \in Agents : p[a] = "waiting"} \ S
    /\ status' = [a \in Agents |-> IF a \in S /\ ~args[a].wt THEN "running" ELSE st[a]]
    /\ pc' = [a \in Agents |-> IF a \in S /\ ~args[a].wt THEN "running"
                               ELSE IF a \in S THEN "setupDequeued" ELSE p[a]]
    /\ runningBackground' = rb + Cardinality({a \in S : ~args[a].wt})
    /\ queue' # <<>> => runningBackground' >= limit

\* The agents taken are a subset of those waiting; the others stay in the queue,
\* in which case the limit is reached.
LEMMA DrainTakesWaiting ==
    ASSUME queue \in Seq(Agents),
           NEW STATE st, NEW STATE p, NEW STATE rb, NEW STATE limit,
           st \in [Agents -> Statuses], p \in [Agents -> PCs],
           rb \in Int, limit \in Nat,
           \A i, j \in 1..Len(queue) : queue[i] = queue[j] => i = j,
           Taken(Len(queue)) = {a \in Agents : p[a] = "waiting"},
           \A a \in Agents : p[a] = "waiting" => st[a] = "queued",
           DrainQueue(rb, st, p, limit)
    PROVE  \E S \in SUBSET Agents : Drained(rb, st, p, limit, S)
<1>1. PICK n \in 0..Len(queue) :
        /\ StopsAfter(rb, st, limit, n)
        /\ queue' = SubSeq(queue, n + 1, Len(queue))
        /\ status' = [a \in Agents |-> IF a \in Started(st, n) THEN "running" ELSE st[a]]
        /\ pc' = [a \in Agents |-> IF a \in Started(st, n) THEN "running"
                                   ELSE IF a \in Taken(n) /\ st[a] = "queued"
                                        THEN "setupDequeued"
                                   ELSE p[a]]
        /\ runningBackground' = SlotsAfter(rb, st, n)
  BY DEF DrainQueue
<1>2. Len(queue) \in Nat /\ \A i \in 1..Len(queue) : queue[i] \in Agents
  OBVIOUS
<1>3. Taken(n) \subseteq {a \in Agents : p[a] = "waiting"}
  BY <1>2 DEF Taken
<1>4. Started(st, n) = {a \in Taken(n) : ~args[a].wt}
  BY <1>3 DEF Started
<1>5. /\ queue' \in Seq(Agents)
      /\ Len(queue') = Len(queue) - n
      /\ \A i \in 1..(Len(queue) - n) : queue'[i] = queue[n + i]
  BY <1>1, <1>2, SubSeqProperties
<1>6. ASSUME NEW i \in 1..Len(queue'), NEW j \in 1..Len(queue'), queue'[i] = queue'[j]
      PROVE  i = j
  <2>1. n + i \in 1..Len(queue) /\ n + j \in 1..Len(queue)
    BY <1>2, <1>5
  <2>2. queue[n + i] = queue[n + j]
    BY <1>2, <1>5, <1>6
  <2>3. QED
    BY <2>1, <2>2, <1>2
<1>7. {queue'[i] : i \in 1..Len(queue')} = {a \in Agents : p[a] = "waiting"} \ Taken(n)
  <2>1. ASSUME NEW i \in 1..Len(queue')
        PROVE  queue'[i] \in {a \in Agents : p[a] = "waiting"} \ Taken(n)
    <3>1. n + i \in 1..Len(queue) /\ queue'[i] = queue[n + i]
      BY <1>2, <1>5
    <3>2. queue[n + i] \in Taken(Len(queue))
      BY <3>1 DEF Taken
    <3>3. queue[n + i] \notin Taken(n)
      BY <3>1, <1>2 DEF Taken
    <3>4. QED
      BY <3>1, <3>2, <3>3
  <2>2. ASSUME NEW a \in {b \in Agents : p[b] = "waiting"} \ Taken(n)
        PROVE  \E i \in 1..Len(queue') : a = queue'[i]
    <3>1. PICK k \in 1..Len(queue) : a = queue[k]
      BY <2>2 DEF Taken
    <3>2. k \in (n + 1)..Len(queue)
      BY <3>1, <1>2, <2>2 DEF Taken
    <3>3. k - n \in 1..Len(queue') /\ queue'[k - n] = queue[n + (k - n)]
      BY <3>2, <1>2, <1>5
    <3>4. QED
      BY <3>1, <3>2, <3>3
  <2>3. QED
    BY <2>1, <2>2
<1>8. queue' # <<>> => runningBackground' >= limit
  <2>1. n = Len(queue) => queue' = <<>>
    BY <1>2, <1>5, EmptySeq
  <2>2. QED
    BY <2>1, <1>1 DEF StopsAfter
<1>9. /\ status' = [a \in Agents |-> IF a \in Taken(n) /\ ~args[a].wt THEN "running" ELSE st[a]]
      /\ pc' = [a \in Agents |-> IF a \in Taken(n) /\ ~args[a].wt THEN "running"
                                 ELSE IF a \in Taken(n) THEN "setupDequeued" ELSE p[a]]
      /\ runningBackground' = rb + Cardinality({a \in Taken(n) : ~args[a].wt})
  BY <1>1, <1>3, <1>4 DEF SlotsAfter
<1>10. Drained(rb, st, p, limit, Taken(n))
  BY <1>3, <1>5, <1>6, <1>7, <1>8, <1>9 DEF Drained
<1>11. QED
  BY <1>3, <1>10

-----------------------------------------------------------------------------
(* Cardinality of the set of slot holders.                                 *)

LEMMA HoldersFinite ==
    /\ IsFiniteSet(Holders)
    /\ Cardinality(Holders) \in Nat
  BY AgentsAssumption, FS_Subset, FS_CardinalityType DEF Holders

\* Taking and giving back one slot.
LEMMA OneHolderMore ==
    ASSUME NEW a \in Agents, a \notin Holders, Holders' = Holders \cup {a}
    PROVE  Cardinality(Holders') = Cardinality(Holders) + 1
  BY HoldersFinite, FS_AddElement

LEMMA DisjointUnion ==
    ASSUME NEW A, NEW B, IsFiniteSet(A), IsFiniteSet(B), A \cap B = {}
    PROVE  Cardinality(A \cup B) = Cardinality(A) + Cardinality(B)
<1>1. Cardinality(A) \in Nat /\ Cardinality(B) \in Nat
  BY FS_CardinalityType
<1>2. Cardinality(A \cup B) = Cardinality(A) + Cardinality(B) - Cardinality(A \cap B)
  BY FS_Union
<1>3. Cardinality(A \cap B) = 0
  BY FS_EmptySet
<1>4. QED
  BY <1>1, <1>2, <1>3

-----------------------------------------------------------------------------
(* The initial states.                                                     *)

LEMMA InitIInv == Init => IInv
<1> SUFFICES ASSUME Init PROVE IInv
  OBVIOUS
<1>1. TypeOK
  BY LimitsAssumption DEF Init, TypeOK, Statuses, PCs, GateStates
<1>2. QueueExact
  BY DEF Init, QueueExact, Taken
<1>3. SlotAccounting
  <2>1. Holders = {}
    BY DEF Init, Holders
  <2>2. QED
    BY <2>1, FS_EmptySet DEF Init, SlotAccounting
<1>4. NoIdleSlot /\ OpenGateIsServed /\ SetupStatus /\ ResumingRan /\ QueuedHasNotRun
  BY DEF Init, NoIdleSlot, OpenGateIsServed, SetupStatus, ResumingRan, QueuedHasNotRun
<1>5. Reports
  BY DEF Init, Reports, InSetup
<1>6. QED
  BY <1>1, <1>2, <1>3, <1>4, <1>5 DEF IInv

-----------------------------------------------------------------------------
(* Steps that leave the queue, or the holders, alone.                      *)

LEMMA QueueKept ==
    ASSUME QueueExact, queue' = queue,
           \A b \in Agents : pc'[b] = "waiting" <=> pc[b] = "waiting",
           \A b \in Agents : pc[b] = "waiting" =>
              status'[b] = "queued" /\ b \in inMap' /\ gate'[b] = "open" /\ args'[b].bg
    PROVE  QueueExact'
<1>1. {a \in Agents : pc'[a] = "waiting"} = {a \in Agents : pc[a] = "waiting"}
  OBVIOUS
<1>2. Taken(Len(queue))' = Taken(Len(queue))
  BY DEF Taken
<1>3. QED
  BY <1>1, <1>2 DEF QueueExact

-----------------------------------------------------------------------------
(* Startup after createWorktree.                                           *)

LEMMA SetupAbandonedStep ==
    ASSUME IInv, NEW a \in Agents, SetupAbandoned(a)
    PROVE  IInv'
<1> USE DEF IInv
<1>1. TypeOK'
  BY DEF SetupAbandoned, StopWon, InSetup, TypeOK, PCs, Statuses, Outcomes, Live, GateStates
<1>2. QueueExact'
  <2>1. /\ queue' = queue
        /\ \A b \in Agents : pc'[b] = "waiting" <=> pc[b] = "waiting"
    BY DEF SetupAbandoned, StopWon, InSetup, TypeOK
  <2>2. \A b \in Agents : pc[b] = "waiting" =>
           status'[b] = "queued" /\ b \in inMap' /\ gate'[b] = "open" /\ args'[b].bg
    BY DEF SetupAbandoned, StopWon, InSetup, TypeOK, QueueExact, ResumingRan, MayHaveSession
  <2>3. QED
    BY <2>1, <2>2, QueueKept
<1>3. SlotAccounting'
  <2>1. Holders' = Holders /\ runningBackground' = runningBackground
    BY DEF SetupAbandoned, StopWon, InSetup, TypeOK, Holders, SetupStatus
  <2>2. QED
    BY <2>1 DEF SlotAccounting
<1>4. NoIdleSlot' /\ OpenGateIsServed' /\ SetupStatus' /\ ResumingRan' /\ QueuedHasNotRun'
  BY DEF SetupAbandoned, StopWon, InSetup, TypeOK, NoIdleSlot, OpenGateIsServed, SetupStatus,
         ResumingRan, MayHaveSession, QueuedHasNotRun, Live, Outcomes
<1>5. Reports'
  BY DEF SetupAbandoned, StopWon, InSetup, InSetup, TypeOK, Reports, ResumingRan, MayHaveSession, QueuedHasNotRun
<1>6. QED
  BY <1>1, <1>2, <1>3, <1>4, <1>5

LEMMA SetupDoneStep ==
    ASSUME IInv, NEW a \in Agents, SetupDone(a)
    PROVE  IInv'
<1> USE DEF IInv
<1>1. TypeOK'
  BY DEF SetupDone, StopWon, InSetup, TypeOK, PCs, Statuses, Outcomes, Live, GateStates
<1>2. QueueExact'
  <2>1. /\ queue' = queue
        /\ \A b \in Agents : pc'[b] = "waiting" <=> pc[b] = "waiting"
    BY DEF SetupDone, StopWon, InSetup, TypeOK
  <2>2. \A b \in Agents : pc[b] = "waiting" =>
           status'[b] = "queued" /\ b \in inMap' /\ gate'[b] = "open" /\ args'[b].bg
    BY DEF SetupDone, StopWon, InSetup, TypeOK, QueueExact, ResumingRan, MayHaveSession
  <2>3. QED
    BY <2>1, <2>2, QueueKept
<1>3. SlotAccounting'
  <2>1. a \notin Holders
    BY DEF SetupDone, StopWon, NewRecord, InSetup, Holders
  <2>2. CASE args'[a].bg
    <3>1. Holders' = Holders \cup {a}
      BY <2>2 DEF SetupDone, StopWon, NewRecord, TypeOK, Holders
    <3>2. QED
      BY <2>1, <2>2, <3>1, OneHolderMore DEF SetupDone, StopWon, NewRecord, TypeOK, SlotAccounting
  <2>3. CASE ~args'[a].bg
    <3>1. Holders' = Holders
      BY <2>3 DEF SetupDone, StopWon, NewRecord, TypeOK, Holders, InSetup
    <3>2. QED
      BY <2>3, <3>1 DEF SetupDone, StopWon, NewRecord, TypeOK, SlotAccounting
  <2>4. QED
    BY <2>2, <2>3
<1>4. NoIdleSlot' /\ OpenGateIsServed' /\ SetupStatus' /\ ResumingRan' /\ QueuedHasNotRun'
  BY DEF SetupDone, StopWon, InSetup, TypeOK, NoIdleSlot, OpenGateIsServed, SetupStatus,
         ResumingRan, MayHaveSession, QueuedHasNotRun, Live, Outcomes
<1>5. Reports'
  BY DEF SetupDone, StopWon, InSetup, InSetup, TypeOK, Reports, ResumingRan, MayHaveSession, QueuedHasNotRun
<1>6. QED
  BY <1>1, <1>2, <1>3, <1>4, <1>5

LEMMA AbandonDoneStep ==
    ASSUME IInv, NEW a \in Agents, AbandonDone(a)
    PROVE  IInv'
<1> USE DEF IInv
<1>1. TypeOK'
  BY DEF AbandonDone, Settle, TypeOK, PCs, Statuses, Outcomes, Live, GateStates
<1>2. QueueExact'
  <2>1. /\ queue' = queue
        /\ \A b \in Agents : pc'[b] = "waiting" <=> pc[b] = "waiting"
    BY DEF AbandonDone, Settle, TypeOK
  <2>2. \A b \in Agents : pc[b] = "waiting" =>
           status'[b] = "queued" /\ b \in inMap' /\ gate'[b] = "open" /\ args'[b].bg
    BY DEF AbandonDone, Settle, TypeOK, QueueExact, ResumingRan, MayHaveSession
  <2>3. QED
    BY <2>1, <2>2, QueueKept
<1>3. SlotAccounting'
  <2>1. Holders' = Holders /\ runningBackground' = runningBackground
    BY DEF AbandonDone, Settle, TypeOK, Holders, SetupStatus
  <2>2. QED
    BY <2>1 DEF SlotAccounting
<1>4. NoIdleSlot' /\ OpenGateIsServed' /\ SetupStatus' /\ ResumingRan' /\ QueuedHasNotRun'
  BY DEF AbandonDone, Settle, TypeOK, NoIdleSlot, OpenGateIsServed, SetupStatus,
         ResumingRan, MayHaveSession, QueuedHasNotRun, Live, Outcomes
<1>5. Reports'
  BY DEF AbandonDone, Settle, InSetup, TypeOK, Reports, ResumingRan, MayHaveSession, QueuedHasNotRun
<1>6. QED
  BY <1>1, <1>2, <1>3, <1>4, <1>5

LEMMA SetupFailedStep ==
    ASSUME IInv, NEW a \in Agents, SetupFailed(a)
    PROVE  IInv'
<1> USE DEF IInv
<1>1. TypeOK'
  BY DEF SetupFailed, Refund, Settle, TypeOK, PCs, Statuses, Outcomes, Live, GateStates
<1>2. QueueExact'
  <2>1. /\ queue' = queue
        /\ \A b \in Agents : pc'[b] = "waiting" <=> pc[b] = "waiting"
    BY DEF SetupFailed, Settle, TypeOK
  <2>2. \A b \in Agents : pc[b] = "waiting" =>
           status'[b] = "queued" /\ b \in inMap' /\ gate'[b] = "open" /\ args'[b].bg
    BY DEF SetupFailed, Settle, TypeOK, QueueExact, ResumingRan, MayHaveSession
  <2>3. QED
    BY <2>1, <2>2, QueueKept
<1>3. SlotAccounting'
  <2>1. Holders' = Holders /\ runningBackground' = runningBackground
    BY DEF SetupFailed, Settle, TypeOK, Holders, SetupStatus
  <2>2. QED
    BY <2>1 DEF SlotAccounting
<1>4. NoIdleSlot' /\ OpenGateIsServed' /\ SetupStatus' /\ ResumingRan' /\ QueuedHasNotRun'
  BY DEF SetupFailed, Settle, TypeOK, NoIdleSlot, OpenGateIsServed, SetupStatus,
         ResumingRan, MayHaveSession, QueuedHasNotRun, Live, Outcomes
<1>5. Reports'
  BY DEF SetupFailed, Settle, InSetup, TypeOK, Reports, ResumingRan, MayHaveSession, QueuedHasNotRun
<1>6. QED
  BY <1>1, <1>2, <1>3, <1>4, <1>5

LEMMA SetupFailedDequeuedStep ==
    ASSUME IInv, NEW a \in Agents, SetupFailedDequeued(a)
    PROVE  IInv'
<1> USE DEF IInv
<1>1. TypeOK'
  BY DEF SetupFailedDequeued, Refund, Settle, TypeOK, PCs, Statuses, Outcomes, Live, GateStates
<1>2. QueueExact'
  <2>1. /\ queue' = queue
        /\ \A b \in Agents : pc'[b] = "waiting" <=> pc[b] = "waiting"
    BY DEF SetupFailedDequeued, Settle, TypeOK
  <2>2. \A b \in Agents : pc[b] = "waiting" =>
           status'[b] = "queued" /\ b \in inMap' /\ gate'[b] = "open" /\ args'[b].bg
    BY DEF SetupFailedDequeued, Settle, TypeOK, QueueExact, ResumingRan, MayHaveSession
  <2>3. QED
    BY <2>1, <2>2, QueueKept
<1>3. SlotAccounting'
  <2>1. Holders' = Holders /\ runningBackground' = runningBackground
    BY DEF SetupFailedDequeued, Settle, TypeOK, Holders, SetupStatus
  <2>2. QED
    BY <2>1 DEF SlotAccounting
<1>4. NoIdleSlot' /\ OpenGateIsServed' /\ SetupStatus' /\ ResumingRan' /\ QueuedHasNotRun'
  BY DEF SetupFailedDequeued, Settle, TypeOK, NoIdleSlot, OpenGateIsServed, SetupStatus,
         ResumingRan, MayHaveSession, QueuedHasNotRun, Live, Outcomes
<1>5. Reports'
  BY DEF SetupFailedDequeued, Settle, InSetup, TypeOK, Reports, ResumingRan, MayHaveSession, QueuedHasNotRun
<1>6. QED
  BY <1>1, <1>2, <1>3, <1>4, <1>5

-----------------------------------------------------------------------------
(* spawn.                                                                  *)

LEMMA SpawnSetupStep ==
    ASSUME IInv, NEW a \in Agents, NEW k \in SpawnKinds, SpawnSetup(a, k)
    PROVE  IInv'
<1> USE DEF IInv
<1>1. TypeOK'
  BY DEF SpawnSetup, NewRecord, StoppedAtOnce, TypeOK, PCs, Statuses, Outcomes, Live, GateStates
<1>2. QueueExact'
  <2>1. /\ queue' = queue
        /\ \A b \in Agents : pc'[b] = "waiting" <=> pc[b] = "waiting"
    BY DEF SpawnSetup, NewRecord, StoppedAtOnce, TypeOK
  <2>2. \A b \in Agents : pc[b] = "waiting" =>
           status'[b] = "queued" /\ b \in inMap' /\ gate'[b] = "open" /\ args'[b].bg
    BY DEF SpawnSetup, NewRecord, StoppedAtOnce, TypeOK, QueueExact, ResumingRan, MayHaveSession
  <2>3. QED
    BY <2>1, <2>2, QueueKept
<1>3. SlotAccounting'
  <2>1. Holders' = Holders /\ runningBackground' = runningBackground
    BY DEF SpawnSetup, NewRecord, StoppedAtOnce, TypeOK, Holders, SetupStatus
  <2>2. QED
    BY <2>1 DEF SlotAccounting
<1>4. NoIdleSlot' /\ OpenGateIsServed' /\ SetupStatus' /\ ResumingRan' /\ QueuedHasNotRun'
  BY DEF SpawnSetup, NewRecord, StoppedAtOnce, TypeOK, NoIdleSlot, OpenGateIsServed, SetupStatus,
         ResumingRan, MayHaveSession, QueuedHasNotRun, Live, Outcomes
<1>5. Reports'
  BY DEF SpawnSetup, NewRecord, StoppedAtOnce, InSetup, TypeOK, Reports, ResumingRan, MayHaveSession, QueuedHasNotRun
<1>6. QED
  BY <1>1, <1>2, <1>3, <1>4, <1>5

LEMMA SpawnRunningStep ==
    ASSUME IInv, NEW a \in Agents, NEW k \in SpawnKinds, SpawnRunning(a, k)
    PROVE  IInv'
<1> USE DEF IInv
<1>1. TypeOK'
  BY DEF SpawnRunning, NewRecord, TypeOK, PCs, Statuses, Outcomes, Live, GateStates
<1>2. QueueExact'
  <2>1. /\ queue' = queue
        /\ \A b \in Agents : pc'[b] = "waiting" <=> pc[b] = "waiting"
    BY DEF SpawnRunning, NewRecord, TypeOK
  <2>2. \A b \in Agents : pc[b] = "waiting" =>
           status'[b] = "queued" /\ b \in inMap' /\ gate'[b] = "open" /\ args'[b].bg
    BY DEF SpawnRunning, NewRecord, TypeOK, QueueExact, ResumingRan, MayHaveSession
  <2>3. QED
    BY <2>1, <2>2, QueueKept
<1>3. SlotAccounting'
  <2>1. a \notin Holders
    BY DEF SpawnRunning, NewRecord, InSetup, Holders
  <2>2. CASE args'[a].bg
    <3>1. Holders' = Holders \cup {a}
      BY <2>2 DEF SpawnRunning, NewRecord, TypeOK, Holders
    <3>2. QED
      BY <2>1, <2>2, <3>1, OneHolderMore DEF SpawnRunning, NewRecord, TypeOK, SlotAccounting
  <2>3. CASE ~args'[a].bg
    <3>1. Holders' = Holders
      BY <2>3 DEF SpawnRunning, NewRecord, TypeOK, Holders, InSetup
    <3>2. QED
      BY <2>3, <3>1 DEF SpawnRunning, NewRecord, TypeOK, SlotAccounting
  <2>4. QED
    BY <2>2, <2>3
<1>4. NoIdleSlot' /\ OpenGateIsServed' /\ SetupStatus' /\ ResumingRan' /\ QueuedHasNotRun'
  BY DEF SpawnRunning, NewRecord, TypeOK, NoIdleSlot, OpenGateIsServed, SetupStatus,
         ResumingRan, MayHaveSession, QueuedHasNotRun, Live, Outcomes
<1>5. Reports'
  BY DEF SpawnRunning, NewRecord, InSetup, TypeOK, Reports, ResumingRan, MayHaveSession, QueuedHasNotRun
<1>6. QED
  BY <1>1, <1>2, <1>3, <1>4, <1>5

LEMMA SpawnAbandonedStep ==
    ASSUME IInv, NEW a \in Agents, NEW k \in SpawnKinds, SpawnAbandoned(a, k)
    PROVE  IInv'
<1> USE DEF IInv
<1>1. TypeOK'
  BY DEF SpawnAbandoned, NewRecord, StoppedAtOnce, TypeOK, PCs, Statuses, Outcomes, Live, GateStates
<1>2. QueueExact'
  <2>1. /\ queue' = queue
        /\ \A b \in Agents : pc'[b] = "waiting" <=> pc[b] = "waiting"
    BY DEF SpawnAbandoned, NewRecord, StoppedAtOnce, TypeOK
  <2>2. \A b \in Agents : pc[b] = "waiting" =>
           status'[b] = "queued" /\ b \in inMap' /\ gate'[b] = "open" /\ args'[b].bg
    BY DEF SpawnAbandoned, NewRecord, StoppedAtOnce, TypeOK, QueueExact, ResumingRan, MayHaveSession
  <2>3. QED
    BY <2>1, <2>2, QueueKept
<1>3. SlotAccounting'
  <2>1. Holders' = Holders /\ runningBackground' = runningBackground
    BY DEF SpawnAbandoned, NewRecord, StoppedAtOnce, TypeOK, Holders, SetupStatus
  <2>2. QED
    BY <2>1 DEF SlotAccounting
<1>4. NoIdleSlot' /\ OpenGateIsServed' /\ SetupStatus' /\ ResumingRan' /\ QueuedHasNotRun'
  BY DEF SpawnAbandoned, NewRecord, StoppedAtOnce, TypeOK, NoIdleSlot, OpenGateIsServed, SetupStatus,
         ResumingRan, MayHaveSession, QueuedHasNotRun, Live, Outcomes
<1>5. Reports'
  BY DEF SpawnAbandoned, NewRecord, StoppedAtOnce, InSetup, TypeOK, Reports, ResumingRan, MayHaveSession, QueuedHasNotRun
<1>6. QED
  BY <1>1, <1>2, <1>3, <1>4, <1>5

LEMMA SpawnQueuedStep ==
    ASSUME IInv, NEW a \in Agents, NEW k \in SpawnKinds, SpawnQueued(a, k)
    PROVE  IInv'
<1> USE DEF IInv
<1>1. TypeOK'
  BY DEF SpawnQueued, NewRecord, MustQueue, TypeOK, PCs, Statuses, Outcomes, Live, GateStates
<1>2. QueueExact'
  <2> SUFFICES /\ \A i, j \in 1..Len(queue') : queue'[i] = queue'[j] => i = j
               /\ Taken(Len(queue))' = {b \in Agents : pc'[b] = "waiting"}
               /\ \A b \in Agents : pc'[b] = "waiting" =>
                    status'[b] = "queued" /\ b \in inMap' /\ gate'[b] = "open" /\ args'[b].bg
    BY DEF QueueExact
  <2>1. /\ Len(queue) \in Nat
        /\ Len(queue') = Len(queue) + 1
        /\ queue'[Len(queue) + 1] = a
        /\ \A i \in 1..Len(queue) : queue'[i] = queue[i]
    BY AppendProperties DEF SpawnQueued, TypeOK
  <2>2. {b \in Agents : pc'[b] = "waiting"} = {b \in Agents : pc[b] = "waiting"} \cup {a}
    BY DEF SpawnQueued, NewRecord, MustQueue, TypeOK
  <2>3. \A i \in 1..Len(queue) : queue[i] # a
    BY DEF SpawnQueued, NewRecord, MustQueue, QueueExact, Taken
  <2>4. \A i, j \in 1..Len(queue') : queue'[i] = queue'[j] => i = j
    BY <2>1, <2>3 DEF QueueExact
  <2>5. Taken(Len(queue))' = Taken(Len(queue)) \cup {a}
    BY <2>1 DEF Taken
  <2>6. \A b \in Agents : pc'[b] = "waiting" =>
           status'[b] = "queued" /\ b \in inMap' /\ gate'[b] = "open" /\ args'[b].bg
    BY DEF SpawnQueued, NewRecord, MustQueue, TypeOK, QueueExact
  <2>7. QED
    BY <2>2, <2>4, <2>5, <2>6 DEF QueueExact
<1>3. SlotAccounting'
  <2>1. Holders' = Holders /\ runningBackground' = runningBackground
    BY DEF SpawnQueued, NewRecord, MustQueue, TypeOK, Holders, SetupStatus
  <2>2. QED
    BY <2>1 DEF SlotAccounting
<1>4. NoIdleSlot' /\ OpenGateIsServed' /\ SetupStatus' /\ ResumingRan' /\ QueuedHasNotRun'
  BY DEF SpawnQueued, NewRecord, MustQueue, TypeOK, NoIdleSlot, OpenGateIsServed, SetupStatus,
         ResumingRan, MayHaveSession, QueuedHasNotRun, Live, Outcomes
<1>5. Reports'
  BY DEF SpawnQueued, NewRecord, MustQueue, InSetup, TypeOK, Reports, ResumingRan, MayHaveSession, QueuedHasNotRun
<1>6. QED
  BY <1>1, <1>2, <1>3, <1>4, <1>5

-----------------------------------------------------------------------------
(* abort and resume.                                                       *)

LEMMA AbortRunningStep ==
    ASSUME IInv, NEW a \in Agents, AbortRunning(a)
    PROVE  IInv'
<1> USE DEF IInv
<1>1. TypeOK'
  BY DEF AbortRunning, TypeOK, PCs, Statuses, Outcomes, Live, GateStates
<1>2. QueueExact'
  <2>1. /\ queue' = queue
        /\ \A b \in Agents : pc'[b] = "waiting" <=> pc[b] = "waiting"
    BY DEF AbortRunning, TypeOK
  <2>2. \A b \in Agents : pc[b] = "waiting" =>
           status'[b] = "queued" /\ b \in inMap' /\ gate'[b] = "open" /\ args'[b].bg
    BY DEF AbortRunning, TypeOK, QueueExact, ResumingRan, MayHaveSession
  <2>3. QED
    BY <2>1, <2>2, QueueKept
<1>3. SlotAccounting'
  <2>1. Holders' = Holders /\ runningBackground' = runningBackground
    BY DEF AbortRunning, TypeOK, Holders, SetupStatus
  <2>2. QED
    BY <2>1 DEF SlotAccounting
<1>4. NoIdleSlot' /\ OpenGateIsServed' /\ SetupStatus' /\ ResumingRan' /\ QueuedHasNotRun'
  BY DEF AbortRunning, TypeOK, NoIdleSlot, OpenGateIsServed, SetupStatus,
         ResumingRan, MayHaveSession, QueuedHasNotRun, Live, Outcomes
<1>5. Reports'
  BY DEF AbortRunning, InSetup, TypeOK, Reports, ResumingRan, MayHaveSession, QueuedHasNotRun
<1>6. QED
  BY <1>1, <1>2, <1>3, <1>4, <1>5

LEMMA AbortInSetupStep ==
    ASSUME IInv, NEW a \in Agents, AbortInSetup(a)
    PROVE  IInv'
<1> USE DEF IInv
<1>1. TypeOK'
  BY DEF AbortInSetup, StopQueued, Settle, TypeOK, PCs, Statuses, Outcomes, Live, GateStates
<1>2. QueueExact'
  <2>1. pc[a] # "waiting"
    <3>1. a \notin Taken(Len(queue))
      BY DEF AbortInSetup, Taken
    <3>2. QED
      BY <3>1 DEF QueueExact
  <2>2. /\ queue' = queue
        /\ \A b \in Agents : pc'[b] = "waiting" <=> pc[b] = "waiting"
    BY DEF AbortInSetup
  <2>3. \A b \in Agents : pc[b] = "waiting" =>
           status'[b] = "queued" /\ b \in inMap' /\ gate'[b] = "open" /\ args'[b].bg
    BY <2>1 DEF AbortInSetup, StopQueued, Settle, TypeOK, QueueExact
  <2>4. QED
    BY <2>2, <2>3, QueueKept
<1>3. SlotAccounting'
  <2>1. Holders' = Holders /\ runningBackground' = runningBackground
    BY DEF AbortInSetup, StopQueued, Settle, TypeOK, Holders, SetupStatus
  <2>2. QED
    BY <2>1 DEF SlotAccounting
<1>4. NoIdleSlot' /\ OpenGateIsServed' /\ SetupStatus' /\ ResumingRan' /\ QueuedHasNotRun'
  BY DEF AbortInSetup, StopQueued, Settle, TypeOK, NoIdleSlot, OpenGateIsServed, SetupStatus,
         ResumingRan, MayHaveSession, QueuedHasNotRun, Live, Outcomes
<1>5. Reports'
  <2>1. InSetup(a)
    <3>1. pc[a] # "waiting"
      BY DEF AbortInSetup, QueueExact, Taken
    <3>2. QED
      BY <3>1 DEF AbortInSetup, StopQueued, QueuedHasNotRun, InSetup
  <2>2. QED
    BY <2>1 DEF AbortInSetup, StopQueued, Settle, InSetup, TypeOK, Reports
<1>6. QED
  BY <1>1, <1>2, <1>3, <1>4, <1>5

LEMMA ResumeStep ==
    ASSUME IInv, NEW a \in Agents, Resume(a)
    PROVE  IInv'
<1> USE DEF IInv
<1>1. TypeOK'
  BY DEF Resume, MayHaveSession, TypeOK, PCs, Statuses, Outcomes, Live, GateStates
<1>2. QueueExact'
  <2>1. /\ queue' = queue
        /\ \A b \in Agents : pc'[b] = "waiting" <=> pc[b] = "waiting"
    BY DEF Resume, MayHaveSession, TypeOK
  <2>2. \A b \in Agents : pc[b] = "waiting" =>
           status'[b] = "queued" /\ b \in inMap' /\ gate'[b] = "open" /\ args'[b].bg
    BY DEF Resume, MayHaveSession, TypeOK, QueueExact, ResumingRan, MayHaveSession
  <2>3. QED
    BY <2>1, <2>2, QueueKept
<1>3. SlotAccounting'
  <2>1. Holders' = Holders /\ runningBackground' = runningBackground
    BY DEF Resume, MayHaveSession, TypeOK, Holders, SetupStatus
  <2>2. QED
    BY <2>1 DEF SlotAccounting
<1>4. NoIdleSlot' /\ OpenGateIsServed' /\ SetupStatus' /\ ResumingRan' /\ QueuedHasNotRun'
  BY DEF Resume, MayHaveSession, TypeOK, NoIdleSlot, OpenGateIsServed, SetupStatus,
         ResumingRan, MayHaveSession, QueuedHasNotRun, Live, Outcomes
<1>5. Reports'
  BY DEF Resume, MayHaveSession, InSetup, TypeOK, Reports, ResumingRan, MayHaveSession, QueuedHasNotRun
<1>6. QED
  BY <1>1, <1>2, <1>3, <1>4, <1>5

LEMMA ResumeEndsStep ==
    ASSUME IInv, NEW a \in Agents, NEW o, ResumeEnds(a, o)
    PROVE  IInv'
<1> USE DEF IInv
<1>1. TypeOK'
  BY DEF ResumeEnds, TypeOK, PCs, Statuses, Outcomes, Live, GateStates
<1>2. QueueExact'
  <2>1. /\ queue' = queue
        /\ \A b \in Agents : pc'[b] = "waiting" <=> pc[b] = "waiting"
    BY DEF ResumeEnds, TypeOK
  <2>2. \A b \in Agents : pc[b] = "waiting" =>
           status'[b] = "queued" /\ b \in inMap' /\ gate'[b] = "open" /\ args'[b].bg
    BY DEF ResumeEnds, TypeOK, QueueExact, ResumingRan, MayHaveSession
  <2>3. QED
    BY <2>1, <2>2, QueueKept
<1>3. SlotAccounting'
  <2>1. Holders' = Holders /\ runningBackground' = runningBackground
    BY DEF ResumeEnds, TypeOK, Holders, SetupStatus
  <2>2. QED
    BY <2>1 DEF SlotAccounting
<1>4. NoIdleSlot' /\ OpenGateIsServed' /\ SetupStatus' /\ ResumingRan' /\ QueuedHasNotRun'
  BY DEF ResumeEnds, TypeOK, NoIdleSlot, OpenGateIsServed, SetupStatus,
         ResumingRan, MayHaveSession, QueuedHasNotRun, Live, Outcomes
<1>5. Reports'
  BY DEF ResumeEnds, InSetup, TypeOK, Reports, ResumingRan, MayHaveSession, QueuedHasNotRun
<1>6. QED
  BY <1>1, <1>2, <1>3, <1>4, <1>5

-----------------------------------------------------------------------------
(* The end of a run in a worktree: the slot is kept.                       *)

LEMMA RunEndsInWorktreeStep ==
    ASSUME IInv, NEW a \in Agents, NEW o \in RunOutcomes, RunEndsInWorktree(a, o)
    PROVE  IInv'
<1> USE DEF IInv
<1>1. TypeOK'
  BY OutcomesAssumption DEF RunEndsInWorktree, FinalStatus, TypeOK, PCs, Statuses, Outcomes, Live, GateStates
<1>2. QueueExact'
  <2>1. /\ queue' = queue
        /\ \A b \in Agents : pc'[b] = "waiting" <=> pc[b] = "waiting"
    BY DEF RunEndsInWorktree, FinalStatus, TypeOK
  <2>2. \A b \in Agents : pc[b] = "waiting" =>
           status'[b] = "queued" /\ b \in inMap' /\ gate'[b] = "open" /\ args'[b].bg
    BY DEF RunEndsInWorktree, FinalStatus, TypeOK, QueueExact, ResumingRan, MayHaveSession
  <2>3. QED
    BY <2>1, <2>2, QueueKept
<1>3. SlotAccounting'
  <2>1. Holders' = Holders /\ runningBackground' = runningBackground
    BY DEF RunEndsInWorktree, FinalStatus, TypeOK, Holders, SetupStatus
  <2>2. QED
    BY <2>1 DEF SlotAccounting
<1>4. NoIdleSlot' /\ OpenGateIsServed' /\ SetupStatus' /\ ResumingRan' /\ QueuedHasNotRun'
  BY OutcomesAssumption DEF RunEndsInWorktree, FinalStatus, TypeOK, NoIdleSlot, OpenGateIsServed, SetupStatus,
         ResumingRan, MayHaveSession, QueuedHasNotRun, Live, Outcomes
<1>5. Reports'
  BY DEF RunEndsInWorktree, FinalStatus, InSetup, TypeOK, Reports, ResumingRan, MayHaveSession, QueuedHasNotRun
<1>6. QED
  BY <1>1, <1>2, <1>3, <1>4, <1>5

-----------------------------------------------------------------------------
(* Removal of records and shutdown.                                        *)

LEMMA CleanupStep ==
    ASSUME IInv, NEW S, Cleanup(S)
    PROVE  IInv'
<1> USE DEF IInv
<1>1. TypeOK'
  BY DEF Cleanup, Removable, RemoveRecords, Drop, Live, TypeOK, PCs, Statuses, Outcomes, Live, GateStates
<1>2. QueueExact'
  <2>1. /\ queue' = queue
        /\ \A b \in Agents : pc'[b] = "waiting" <=> pc[b] = "waiting"
    BY DEF Cleanup, Removable, RemoveRecords, Drop, Live, TypeOK
  <2>2. \A b \in Agents : pc[b] = "waiting" =>
           status'[b] = "queued" /\ b \in inMap' /\ gate'[b] = "open" /\ args'[b].bg
    BY DEF Cleanup, Removable, RemoveRecords, Drop, Live, TypeOK, QueueExact, ResumingRan, MayHaveSession
  <2>3. QED
    BY <2>1, <2>2, QueueKept
<1>3. SlotAccounting'
  <2>1. Holders' = Holders /\ runningBackground' = runningBackground
    BY DEF Cleanup, Removable, RemoveRecords, Drop, Live, TypeOK, Holders, SetupStatus
  <2>2. QED
    BY <2>1 DEF SlotAccounting
<1>4. NoIdleSlot' /\ OpenGateIsServed' /\ SetupStatus' /\ ResumingRan' /\ QueuedHasNotRun'
  BY DEF Cleanup, Removable, RemoveRecords, Drop, Live, TypeOK, NoIdleSlot, OpenGateIsServed, SetupStatus,
         ResumingRan, MayHaveSession, QueuedHasNotRun, Live, Outcomes
<1>5. Reports'
  BY DEF Cleanup, Removable, RemoveRecords, Drop, Live, InSetup, TypeOK, Reports, ResumingRan, MayHaveSession, QueuedHasNotRun
<1>6. QED
  BY <1>1, <1>2, <1>3, <1>4, <1>5

LEMMA SessionSwitchStep ==
    ASSUME IInv, SessionSwitch
    PROVE  IInv'
<1> USE DEF IInv
<1>1. TypeOK'
  BY DEF SessionSwitch, Removable, RemoveRecords, Drop, Live, TypeOK, PCs, Statuses, Outcomes, Live, GateStates
<1>2. QueueExact'
  <2>1. /\ queue' = queue
        /\ \A b \in Agents : pc'[b] = "waiting" <=> pc[b] = "waiting"
    BY DEF SessionSwitch, Removable, RemoveRecords, Drop, Live, TypeOK
  <2>2. \A b \in Agents : pc[b] = "waiting" =>
           status'[b] = "queued" /\ b \in inMap' /\ gate'[b] = "open" /\ args'[b].bg
    BY DEF SessionSwitch, Removable, RemoveRecords, Drop, Live, TypeOK, QueueExact, ResumingRan, MayHaveSession
  <2>3. QED
    BY <2>1, <2>2, QueueKept
<1>3. SlotAccounting'
  <2>1. Holders' = Holders /\ runningBackground' = runningBackground
    BY DEF SessionSwitch, Removable, RemoveRecords, Drop, Live, TypeOK, Holders, SetupStatus
  <2>2. QED
    BY <2>1 DEF SlotAccounting
<1>4. NoIdleSlot' /\ OpenGateIsServed' /\ SetupStatus' /\ ResumingRan' /\ QueuedHasNotRun'
  BY DEF SessionSwitch, Removable, RemoveRecords, Drop, Live, TypeOK, NoIdleSlot, OpenGateIsServed, SetupStatus,
         ResumingRan, MayHaveSession, QueuedHasNotRun, Live, Outcomes
<1>5. Reports'
  BY DEF SessionSwitch, Removable, RemoveRecords, Drop, Live, InSetup, TypeOK, Reports, ResumingRan, MayHaveSession, QueuedHasNotRun
<1>6. QED
  BY <1>1, <1>2, <1>3, <1>4, <1>5

LEMMA AbortAllStep ==
    ASSUME IInv, AbortAll
    PROVE  IInv'
<1> USE DEF IInv
<1>1. TypeOK'
  BY DEF AbortAll, SettleAll, Live, TypeOK, PCs, Statuses, Outcomes, Live, GateStates
<1>2. QueueExact'
  <2>1. /\ \A i, j \in 1..Len(queue') : queue'[i] = queue'[j] => i = j
        /\ Taken(Len(queue))' = {}
    BY DEF AbortAll, Taken
  <2>2. \A b \in Agents : pc'[b] # "waiting"
    BY DEF AbortAll, TypeOK, QueueExact, Live
  <2>3. QED
    BY <2>1, <2>2 DEF QueueExact
<1>3. SlotAccounting'
  <2>1. Holders' = Holders /\ runningBackground' = runningBackground
    BY DEF AbortAll, SettleAll, Live, TypeOK, Holders, SetupStatus
  <2>2. QED
    BY <2>1 DEF SlotAccounting
<1>4. NoIdleSlot' /\ OpenGateIsServed' /\ SetupStatus' /\ ResumingRan' /\ QueuedHasNotRun'
  BY DEF AbortAll, SettleAll, Live, TypeOK, NoIdleSlot, OpenGateIsServed, SetupStatus,
         ResumingRan, MayHaveSession, QueuedHasNotRun, Live, Outcomes
<1>5. Reports'
  BY DEF AbortAll, SettleAll, Live, InSetup, TypeOK, Reports, ResumingRan, MayHaveSession, QueuedHasNotRun
<1>6. QED
  BY <1>1, <1>2, <1>3, <1>4, <1>5

LEMMA DisposeStep ==
    ASSUME IInv, Dispose
    PROVE  IInv'
<1> USE DEF IInv
<1>1. TypeOK'
  BY DEF Dispose, SettleAll, Drop, Live, TypeOK, PCs, Statuses, Outcomes, Live, GateStates
<1>2. QueueExact'
  <2>1. /\ \A i, j \in 1..Len(queue') : queue'[i] = queue'[j] => i = j
        /\ Taken(Len(queue))' = {}
    BY DEF Dispose, Taken
  <2>2. \A b \in Agents : pc'[b] # "waiting"
    BY DEF Dispose, TypeOK, QueueExact, Live
  <2>3. QED
    BY <2>1, <2>2 DEF QueueExact
<1>3. SlotAccounting'
  <2>1. Holders' = Holders /\ runningBackground' = runningBackground
    BY DEF Dispose, SettleAll, Drop, Live, TypeOK, Holders, SetupStatus
  <2>2. QED
    BY <2>1 DEF SlotAccounting
<1>4. NoIdleSlot' /\ OpenGateIsServed' /\ SetupStatus' /\ ResumingRan' /\ QueuedHasNotRun'
  BY DEF Dispose, SettleAll, Drop, Live, TypeOK, NoIdleSlot, OpenGateIsServed, SetupStatus,
         ResumingRan, MayHaveSession, QueuedHasNotRun, Live, Outcomes
<1>5. Reports'
  BY DEF Dispose, SettleAll, Drop, Live, InSetup, TypeOK, Reports, ResumingRan, MayHaveSession, QueuedHasNotRun
<1>6. QED
  BY <1>1, <1>2, <1>3, <1>4, <1>5

-----------------------------------------------------------------------------
(* Leaving the queue from the middle.                                      *)

LEMMA SkipAtProperties ==
    ASSUME NEW S, NEW s \in Seq(S), NEW i \in 1..Len(s),
           \A j, k \in 1..Len(s) : s[j] = s[k] => j = k
    PROVE  /\ SkipAt(s, i) \in Seq(S)
           /\ \A j, k \in 1..Len(SkipAt(s, i)) : SkipAt(s, i)[j] = SkipAt(s, i)[k] => j = k
           /\ {SkipAt(s, i)[j] : j \in 1..Len(SkipAt(s, i))} = {s[j] : j \in 1..Len(s)} \ {s[i]}
<1> DEFINE t == SkipAt(s, i)
<1>1. Len(s) \in Nat /\ \A j \in 1..Len(s) : s[j] \in S
  OBVIOUS
<1>2. /\ t \in Seq(S)
      /\ Len(t) = Len(s) - 1
      /\ \A j \in 1..(Len(s) - 1) : t[j] = IF j < i THEN s[j] ELSE s[j + 1]
  <2>1. \A j \in 1..(Len(s) - 1) : (IF j < i THEN s[j] ELSE s[j + 1]) \in S
    BY <1>1
  <2>2. QED
    BY <1>1, <2>1, IsASeq DEF SkipAt
<1> HIDE DEF t
<1>3. ASSUME NEW j \in 1..Len(t), NEW k \in 1..Len(t), t[j] = t[k]
      PROVE  j = k
  BY <1>1, <1>2, <1>3
<1>4. ASSUME NEW j \in 1..Len(t)
      PROVE  t[j] \in {s[k] : k \in 1..Len(s)} \ {s[i]}
  BY <1>1, <1>2
<1>5. ASSUME NEW j \in 1..Len(s), s[j] # s[i]
      PROVE  \E k \in 1..Len(t) : s[j] = t[k]
  <2>1. CASE j < i
    BY <1>1, <1>2, <2>1
  <2>2. CASE j > i
    <3>1. j - 1 \in 1..Len(t) /\ t[j - 1] = s[(j - 1) + 1]
      BY <1>1, <1>2, <2>2
    <3>2. QED
      BY <3>1
  <2>3. QED
    BY <1>5, <2>1, <2>2
<1>6. {t[j] : j \in 1..Len(t)} = {s[j] : j \in 1..Len(s)} \ {s[i]}
  BY <1>4, <1>5
<1>7. QED
  BY <1>2, <1>3, <1>6 DEF t

LEMMA AbortWaitingStep ==
    ASSUME IInv, NEW a \in Agents, AbortWaiting(a)
    PROVE  IInv'
<1> USE DEF IInv
<1>1. PICK i \in 1..Len(queue) : queue[i] = a /\ queue' = SkipAt(queue, i)
  BY DEF AbortWaiting
<1>2. pc[a] = "waiting"
  BY <1>1 DEF QueueExact, Taken
<1>3. /\ queue' \in Seq(Agents)
      /\ \A j, k \in 1..Len(queue') : queue'[j] = queue'[k] => j = k
      /\ Taken(Len(queue))' = Taken(Len(queue)) \ {a}
  <2>1. queue \in Seq(Agents) /\ \A j, k \in 1..Len(queue) : queue[j] = queue[k] => j = k
    BY DEF TypeOK, QueueExact
  <2>2. /\ SkipAt(queue, i) \in Seq(Agents)
        /\ \A j, k \in 1..Len(SkipAt(queue, i)) :
              SkipAt(queue, i)[j] = SkipAt(queue, i)[k] => j = k
        /\ {SkipAt(queue, i)[j] : j \in 1..Len(SkipAt(queue, i))} =
              {queue[j] : j \in 1..Len(queue)} \ {queue[i]}
    BY <2>1, SkipAtProperties
  <2>3. QED
    BY <1>1, <2>2 DEF Taken
<1>4. TypeOK'
  BY <1>3 DEF AbortWaiting, StopQueued, Settle, TypeOK, PCs, Statuses, GateStates
<1>5. QueueExact'
  <2>1. {b \in Agents : pc'[b] = "waiting"} = {b \in Agents : pc[b] = "waiting"} \ {a}
    BY DEF AbortWaiting, TypeOK
  <2>2. \A b \in Agents : pc'[b] = "waiting" =>
           status'[b] = "queued" /\ b \in inMap' /\ gate'[b] = "open" /\ args'[b].bg
    BY DEF AbortWaiting, StopQueued, Settle, TypeOK, QueueExact
  <2>3. QED
    BY <1>3, <2>1, <2>2 DEF QueueExact
<1>6. SlotAccounting'
  <2>1. Holders' = Holders /\ runningBackground' = runningBackground
    BY <1>2 DEF AbortWaiting, StopQueued, TypeOK, Holders
  <2>2. QED
    BY <2>1 DEF SlotAccounting
<1>7. NoIdleSlot'
  <2>1. queue # <<>>
    BY <1>1, EmptySeq
  <2>2. QED
    BY <2>1 DEF AbortWaiting, StopQueued, NoIdleSlot
<1>8. OpenGateIsServed' /\ SetupStatus' /\ ResumingRan' /\ QueuedHasNotRun'
  BY <1>2 DEF AbortWaiting, StopQueued, Settle, TypeOK, OpenGateIsServed, SetupStatus,
         ResumingRan, MayHaveSession, QueuedHasNotRun
<1>9. Reports'
  BY <1>2 DEF AbortWaiting, StopQueued, InSetup, TypeOK, Reports
<1>10. QED
  BY <1>4, <1>5, <1>6, <1>7, <1>8, <1>9

-----------------------------------------------------------------------------
(* Steps that drain the queue.                                             *)

\* st, p and rb are the statuses, pcs and slot count drainQueue starts from; if
\* they satisfy the invariant but for NoIdleSlot, the step restores all of it.
LEMMA DrainStep ==
    ASSUME TypeOK, QueueExact,
           NEW STATE st, NEW STATE p, NEW STATE rb, NEW STATE limit,
           st \in [Agents -> Statuses], p \in [Agents -> PCs],
           rb \in Int, limit \in Nat \ {0},
           DrainQueue(rb, st, p, limit),
           UNCHANGED <<args, inMap, resuming, resumes, phase, usage>>,
           maxConcurrent' = limit,
           gate' \in [Agents -> GateStates],
           completions' \in [Agents -> Nat],
           \A b \in Agents : p[b] = "waiting" <=> pc[b] = "waiting",
           \A b \in Agents : pc[b] = "waiting" =>
              st[b] = "queued" /\ gate'[b] = "open" /\ completions'[b] = 0,
           rb = Cardinality({b \in Agents : args[b].bg /\ p[b] \in {"running", "cleanup"}}),
           \A b \in Agents : gate'[b] = "open" =>
              b \in inMap /\ p[b] \notin {"unborn", "ended", "neverRan"},
           \A b \in Agents : p[b] = "setupDequeued" => st[b] \in {"queued", "stopped"},
           \A b \in resuming : p[b] \in {"running", "cleanup", "ended"},
           \A b \in inMap : st[b] = "queued" => p[b] \in {"waiting", "setup", "setupDequeued"},
           \A b \in Agents :
              /\ p[b] \in {"unborn", "running", "cleanup"} => completions'[b] = 0
              /\ p[b] \in {"setup", "setupDequeued"} =>
                    completions'[b] = 0 \/ st[b] = "stopped"
              /\ p[b] = "ended" => completions'[b] = (IF args[b].bg THEN 1 ELSE 0)
    PROVE  IInv'
<1>1. {b \in Agents : p[b] = "waiting"} = {b \in Agents : pc[b] = "waiting"}
  OBVIOUS
<1>a. /\ queue \in Seq(Agents)
      /\ limit \in Nat
      /\ \A i, j \in 1..Len(queue) : queue[i] = queue[j] => i = j
      /\ Taken(Len(queue)) = {b \in Agents : p[b] = "waiting"}
      /\ \A b \in Agents : p[b] = "waiting" => st[b] = "queued"
  BY <1>1 DEF TypeOK, QueueExact
<1>2. PICK S \in SUBSET Agents : Drained(rb, st, p, limit, S)
  BY <1>a, DrainTakesWaiting
<1> USE <1>2 DEF Drained
<1> DEFINE T == {b \in S : ~args[b].wt}
           H == {b \in Agents : args[b].bg /\ p[b] \in {"running", "cleanup"}}
<1>3. /\ IsFiniteSet(T) /\ Cardinality(T) \in Nat
      /\ IsFiniteSet(H) /\ Cardinality(H) \in Nat
  BY AgentsAssumption, FS_Subset, FS_CardinalityType
<1>4. TypeOK'
  BY <1>2, <1>3 DEF TypeOK, Statuses, Live, PCs
<1>5. QueueExact'
  <2>1. {b \in Agents : pc'[b] = "waiting"} = {b \in Agents : p[b] = "waiting"} \ S
    BY <1>2
  <2>2. Taken(Len(queue))' = {b \in Agents : p[b] = "waiting"} \ S
    BY <1>2 DEF Taken
  <2>3. \A b \in Agents : pc'[b] = "waiting" =>
           status'[b] = "queued" /\ b \in inMap' /\ gate'[b] = "open" /\ args'[b].bg
    BY <1>2 DEF QueueExact
  <2>4. QED
    BY <1>2, <2>1, <2>2, <2>3 DEF QueueExact
<1>6. SlotAccounting'
  <2>1. \A b \in S : args[b].bg
    BY <1>1 DEF QueueExact
  <2>2. Holders' = H \cup T
    BY <1>2, <2>1 DEF Holders
  <2>3. H \cap T = {}
    OBVIOUS
  <2>4. runningBackground' = Cardinality(H) + Cardinality(T)
    BY <1>2
  <2> HIDE DEF H, T
  <2>5. Cardinality(H \cup T) = Cardinality(H) + Cardinality(T)
    BY ONLY <1>3, <2>3, DisjointUnion
  <2>6. QED
    BY <2>2, <2>4, <2>5 DEF SlotAccounting
<1>7. NoIdleSlot'
  BY <1>2 DEF NoIdleSlot
<1>8. OpenGateIsServed'
  BY <1>2 DEF OpenGateIsServed
<1>9. SetupStatus'
  BY <1>2 DEF SetupStatus
<1>10. ResumingRan'
  BY <1>2 DEF ResumingRan, MayHaveSession, TypeOK
<1>11. QueuedHasNotRun'
  BY <1>2 DEF QueuedHasNotRun, TypeOK
<1>12. Reports'
  BY <1>2 DEF Reports, InSetup
<1>13. QED
  BY <1>4, <1>5, <1>6, <1>7, <1>8, <1>9, <1>10, <1>11, <1>12 DEF IInv

LEMMA SetMaxConcurrentStep ==
    ASSUME IInv, NEW n \in Limits, SetMaxConcurrent(n)
    PROVE  IInv'
<1> USE DEF IInv
<1>1. Larger(1, n) \in Nat \ {0}
  BY LimitsAssumption DEF Larger
<1>2. /\ TypeOK /\ QueueExact
      /\ status \in [Agents -> Statuses] /\ pc \in [Agents -> PCs]
      /\ runningBackground \in Int
      /\ DrainQueue(runningBackground, status, pc, Larger(1, n))
      /\ UNCHANGED <<args, inMap, resuming, resumes, phase, usage>>
      /\ maxConcurrent' = Larger(1, n)
      /\ gate' \in [Agents -> GateStates]
      /\ completions' \in [Agents -> Nat]
      /\ runningBackground =
            Cardinality({b \in Agents : args[b].bg /\ pc[b] \in {"running", "cleanup"}})
  BY DEF SetMaxConcurrent, TypeOK, SlotAccounting, Holders
<1>3. \A b \in Agents : pc[b] = "waiting" =>
         status[b] = "queued" /\ gate'[b] = "open" /\ completions'[b] = 0
  BY DEF SetMaxConcurrent, QueueExact, Reports
<1>4. /\ \A b \in Agents : gate'[b] = "open" =>
            b \in inMap /\ pc[b] \notin {"unborn", "ended", "neverRan"}
      /\ \A b \in Agents : pc[b] = "setupDequeued" => status[b] \in {"queued", "stopped"}
      /\ \A b \in resuming : pc[b] \in {"running", "cleanup", "ended"}
      /\ \A b \in inMap : status[b] = "queued" =>
            pc[b] \in {"waiting", "setup", "setupDequeued"}
      /\ \A b \in Agents :
            /\ pc[b] \in {"unborn", "running", "cleanup"} => completions'[b] = 0
            /\ pc[b] \in {"setup", "setupDequeued"} =>
                  completions'[b] = 0 \/ status[b] = "stopped"
            /\ pc[b] = "ended" => completions'[b] = (IF args[b].bg THEN 1 ELSE 0)
  BY DEF SetMaxConcurrent, OpenGateIsServed, SetupStatus, ResumingRan, MayHaveSession,
         QueuedHasNotRun, Reports, InSetup
<1>5. QED
  BY <1>1, <1>2, <1>3, <1>4, DrainStep
\* A run of agent a is over and finalizeAgent gives its slot back; st is the
\* statuses with a's final one.
LEMMA ReleaseStep ==
    ASSUME IInv, NEW a \in Agents, NEW STATE st,
           pc[a] \in {"running", "cleanup"},
           st \in [Agents -> Statuses],
           \A b \in Agents : b # a => st[b] = status[b],
           a \in inMap => st[a] # "queued",
           Release(a, st),
           UNCHANGED <<args, inMap, maxConcurrent, usage, resuming, resumes, phase>>
    PROVE  IInv'
<1> USE DEF IInv
<1> DEFINE p == [pc EXCEPT ![a] = "ended"]
<1>1. /\ p \in [Agents -> PCs]
      /\ p[a] = "ended"
      /\ \A b \in Agents : b # a => p[b] = pc[b]
  BY DEF TypeOK, PCs
<1>2. gate' = Settle(gate, a, "resolved") /\ gate' \in [Agents -> GateStates]
  BY DEF Release, Settle, TypeOK, GateStates
<1>3. CASE args[a].bg
  <2>a. /\ completions' = [completions EXCEPT ![a] = @ + 1]
        /\ DrainQueue(runningBackground - 1, st, p, maxConcurrent)
    BY <1>3 DEF Release
  <2>1. /\ completions' = [completions EXCEPT ![a] = @ + 1]
        /\ completions' \in [Agents -> Nat]
        /\ DrainQueue(runningBackground - 1, st, p, maxConcurrent)
    BY <2>a DEF TypeOK
  <2>2. runningBackground - 1 =
           Cardinality({b \in Agents : args[b].bg /\ p[b] \in {"running", "cleanup"}})
    <3>1. {b \in Agents : args[b].bg /\ p[b] \in {"running", "cleanup"}} = Holders \ {a}
      BY <1>1 DEF Holders
    <3>2. a \in Holders
      BY <1>3 DEF Holders
    <3>3. Cardinality(Holders \ {a}) = Cardinality(Holders) - 1
      BY <3>2, HoldersFinite, FS_RemoveElement
    <3>4. QED
      BY <3>1, <3>3 DEF SlotAccounting
  <2>3. /\ TypeOK /\ QueueExact
        /\ runningBackground - 1 \in Int /\ maxConcurrent \in Nat \ {0}
        /\ maxConcurrent' = maxConcurrent
        /\ UNCHANGED <<args, inMap, resuming, resumes, phase, usage>>
    BY DEF TypeOK
  <2>4. /\ \A b \in Agents : p[b] = "waiting" <=> pc[b] = "waiting"
        /\ \A b \in Agents : pc[b] = "waiting" =>
              st[b] = "queued" /\ gate'[b] = "open" /\ completions'[b] = 0
    BY <1>1, <1>2, <2>1 DEF Settle, QueueExact, Reports, TypeOK
  <2>5. /\ \A b \in Agents : gate'[b] = "open" =>
              b \in inMap /\ p[b] \notin {"unborn", "ended", "neverRan"}
        /\ \A b \in Agents : p[b] = "setupDequeued" => st[b] \in {"queued", "stopped"}
        /\ \A b \in resuming : p[b] \in {"running", "cleanup", "ended"}
        /\ \A b \in inMap : st[b] = "queued" =>
              p[b] \in {"waiting", "setup", "setupDequeued"}
    BY <1>1, <1>2 DEF Settle, TypeOK, OpenGateIsServed, SetupStatus, ResumingRan,
       MayHaveSession, QueuedHasNotRun
  <2>6. \A b \in Agents :
              /\ p[b] \in {"unborn", "running", "cleanup"} => completions'[b] = 0
              /\ p[b] \in {"setup", "setupDequeued"} =>
                    completions'[b] = 0 \/ st[b] = "stopped"
              /\ p[b] = "ended" => completions'[b] = (IF args[b].bg THEN 1 ELSE 0)
    BY <1>1, <1>3, <2>1 DEF TypeOK, Reports, InSetup
  <2> HIDE DEF p
  <2>7. QED
    BY <1>1, <1>2, <2>1, <2>2, <2>3, <2>4, <2>5, <2>6, DrainStep
<1>4. CASE ~args[a].bg
  <2>1. status' = st /\ pc' = p /\ UNCHANGED <<completions, queue, runningBackground>>
    BY <1>4 DEF Release
  <2>2. TypeOK'
    BY <1>1, <1>2, <2>1 DEF TypeOK
  <2>3. QueueExact'
    <3>1. /\ queue' = queue
          /\ \A b \in Agents : pc'[b] = "waiting" <=> pc[b] = "waiting"
      BY <1>1, <2>1
    <3>2. \A b \in Agents : pc[b] = "waiting" =>
             status'[b] = "queued" /\ b \in inMap' /\ gate'[b] = "open" /\ args'[b].bg
      BY <1>2, <2>1 DEF Settle, TypeOK, QueueExact
    <3>3. QED
      BY <3>1, <3>2, QueueKept
  <2>4. SlotAccounting'
    <3>1. Holders' = Holders
      BY <1>1, <1>4, <2>1 DEF Holders
    <3>2. QED
      BY <2>1, <3>1 DEF SlotAccounting
  <2>5. NoIdleSlot' /\ OpenGateIsServed' /\ SetupStatus' /\ ResumingRan' /\ QueuedHasNotRun'
    BY <1>1, <1>2, <2>1 DEF NoIdleSlot, Settle, TypeOK, OpenGateIsServed, SetupStatus,
       ResumingRan, MayHaveSession, QueuedHasNotRun
  <2>6. Reports'
    BY <1>1, <1>4, <2>1 DEF TypeOK, Reports, InSetup
  <2>7. QED
    BY <2>2, <2>3, <2>4, <2>5, <2>6
<1>5. QED
  BY <1>3, <1>4

LEMMA RunEndsStep ==
    ASSUME IInv, NEW a \in Agents, NEW o \in RunOutcomes, RunEnds(a, o)
    PROVE  IInv'
<1>1. /\ FinalStatus(a, o) \in [Agents -> Statuses]
      /\ \A b \in Agents : b # a => FinalStatus(a, o)[b] = status[b]
      /\ FinalStatus(a, o)[a] # "queued"
  BY OutcomesAssumption DEF IInv, TypeOK, FinalStatus, Statuses, Outcomes
<1>2. QED
  BY <1>1, ReleaseStep DEF RunEnds

LEMMA CleanupDoneStep ==
    ASSUME IInv, NEW a \in Agents, CleanupDone(a)
    PROVE  IInv'
<1>1. status \in [Agents -> Statuses] /\ (a \in inMap => status[a] # "queued")
  BY DEF IInv, TypeOK, CleanupDone, QueuedHasNotRun
<1>2. QED
  BY <1>1, ReleaseStep DEF CleanupDone

-----------------------------------------------------------------------------
(* The session's limit.                                                    *)

CountedAreBorn == \A a \in counted : a \in Agents /\ pc[a] # "unborn"

\* No step takes an agent back to before its spawn.
LEMMA BornForGood ==
    ASSUME IInv, Next, NEW b \in Agents, pc[b] # "unborn"
    PROVE  pc'[b] # "unborn"
<1> USE DEF IInv, TypeOK
<1>1. ASSUME NEW STATE st, NEW STATE p, NEW STATE rb, NEW STATE limit,
              p[b] # "unborn", DrainQueue(rb, st, p, limit)
      PROVE  pc'[b] # "unborn"
  BY <1>1 DEF DrainQueue
<1>2. ASSUME NEW a \in Agents, NEW k \in SpawnKinds, SpawnAny(a, k) PROVE pc'[b] # "unborn"
  BY <1>2 DEF SpawnAny, SpawnQueued, SpawnSetup, SpawnRunning, SpawnAbandoned
<1>3. ASSUME NEW a \in Agents, Startup(a) \/ AbandonDone(a) PROVE pc'[b] # "unborn"
  BY <1>3 DEF Startup, SetupDone, SetupAbandoned, SetupFailed, SetupFailedDequeued, AbandonDone
<1>4. ASSUME NEW a \in Agents, NEW STATE st, Release(a, st) PROVE pc'[b] # "unborn"
  <2>1. [pc EXCEPT ![a] = "ended"][b] # "unborn"
    OBVIOUS
  <2>2. QED
    BY <1>1, <1>4, <2>1 DEF Release
<1>5. ASSUME NEW a \in Agents, Ending(a) \/ CleanupDone(a) PROVE pc'[b] # "unborn"
  BY <1>4, <1>5 DEF Ending, RunEnds, RunEndsInWorktree, CleanupDone
<1>6. ASSUME NEW a \in Agents, \/ AbortWaiting(a) \/ AbortInSetup(a) \/ AbortRunning(a)
                               \/ Resume(a)
                               \/ \E o \in {"completed", "error"} : ResumeEnds(a, o)
      PROVE  pc'[b] # "unborn"
  BY <1>6 DEF AbortWaiting, AbortInSetup, AbortRunning, Resume, ResumeEnds
<1>7. ASSUME NEW n \in Limits, SetMaxConcurrent(n) PROVE pc'[b] # "unborn"
  BY <1>1, <1>7 DEF SetMaxConcurrent
<1>8. ASSUME NEW S \in SUBSET Agents, Cleanup(S) PROVE pc'[b] # "unborn"
  BY <1>8 DEF Cleanup
<1>9. CASE SessionSwitch \/ AbortAll \/ Dispose
  BY <1>9 DEF SessionSwitch, AbortAll, Dispose
<1>10. QED
  BY <1>2, <1>3, <1>5, <1>6, <1>7, <1>8, <1>9 DEF Next

\* The counter and its history change in three ways only.
LEMMA UsageChanges ==
    ASSUME TypeOK, Next
    PROVE  \/ UNCHANGED usage
           \/ \E a \in Agents, k \in SpawnKinds : NewRecord(a, k) /\ pc'[a] # "unborn"
           \/ \E a \in Agents : Refund(a)
           \/ spawnedAgents' = 0 /\ counted' = {} /\ strays' = 0
<1>1. ASSUME NEW a \in Agents, NEW k \in SpawnKinds, SpawnAny(a, k)
      PROVE  NewRecord(a, k) /\ pc'[a] # "unborn"
  BY <1>1 DEF SpawnAny, SpawnQueued, SpawnSetup, SpawnRunning, SpawnAbandoned, TypeOK
<1>2. ASSUME NEW a \in Agents, Startup(a) PROVE UNCHANGED usage \/ Refund(a)
  BY <1>2 DEF Startup, SetupDone, SetupAbandoned, SetupFailed, SetupFailedDequeued
<1>3. ASSUME NEW a \in Agents, AbandonDone(a) \/ Ending(a) \/ CleanupDone(a)
      PROVE  UNCHANGED usage
  BY <1>3 DEF AbandonDone, Ending, RunEnds, RunEndsInWorktree, CleanupDone
<1>4. ASSUME NEW a \in Agents, \/ AbortWaiting(a) \/ AbortInSetup(a) \/ AbortRunning(a)
                               \/ Resume(a)
                               \/ \E o \in {"completed", "error"} : ResumeEnds(a, o)
      PROVE  UNCHANGED usage
  BY <1>4 DEF AbortWaiting, AbortInSetup, StopQueued, AbortRunning, Resume, ResumeEnds
<1>5. ASSUME \/ \E n \in Limits : SetMaxConcurrent(n)
             \/ \E S \in SUBSET Agents : Cleanup(S)
             \/ AbortAll \/ Dispose
      PROVE  UNCHANGED usage
  BY <1>5 DEF SetMaxConcurrent, Cleanup, AbortAll, Dispose
<1>6. CASE SessionSwitch
  BY <1>6 DEF SessionSwitch
<1>7. QED
  BY <1>1, <1>2, <1>3, <1>4, <1>5, <1>6 DEF Next

LEMMA LimitStep ==
    ASSUME IInv, SessionLimitHolds, CountedAreBorn, [Next]_vars
    PROVE  SessionLimitHolds' /\ CountedAreBorn'
<1> USE DEF SessionLimitHolds, CountedAreBorn
<1>1. /\ IsFiniteSet(counted) /\ Cardinality(counted) \in Nat
      /\ counted \subseteq Agents /\ strays \in Nat /\ SessionLimit \in Nat
  BY AgentsAssumption, LimitsAssumption, FS_Subset, FS_CardinalityType DEF IInv, TypeOK
<1>2. CASE UNCHANGED vars
  BY <1>2 DEF vars
<1>3. CASE Next
  <2>1. \A b \in Agents : pc[b] # "unborn" => pc'[b] # "unborn"
    BY <1>3, BornForGood
  <2>2. CASE UNCHANGED usage
    BY <2>1, <2>2
  <2>3. ASSUME NEW a \in Agents, NEW k \in SpawnKinds, NewRecord(a, k), pc'[a] # "unborn"
        PROVE  SessionLimitHolds' /\ CountedAreBorn'
    <3>1. a \notin counted /\ counted' = counted \cup {a}
      BY <2>3 DEF NewRecord
    <3>2. Cardinality(counted') = Cardinality(counted) + 1
      BY <1>1, <3>1, FS_AddElement
    <3>3. spawnedAgents' = spawnedAgents + 1 /\ strays' = strays /\ SessionHasRoom
      BY <2>3 DEF NewRecord
    <3>4. SessionLimitHolds'
      BY <1>1, <3>2, <3>3 DEF SessionHasRoom
    <3>5. QED
      BY <1>1, <2>1, <2>3, <3>1, <3>4
  <2>4. ASSUME NEW a \in Agents, Refund(a)
        PROVE  SessionLimitHolds' /\ CountedAreBorn'
    <3>1. CountedAreBorn'
      BY <1>1, <2>1, <2>4 DEF Refund
    <3>2. CASE a \in counted
      <4>1. Cardinality(counted \ {a}) = Cardinality(counted) - 1
        BY <1>1, <3>2, FS_RemoveElement
      <4>2. QED
        BY <1>1, <2>4, <3>1, <3>2, <4>1 DEF Refund
    <3>3. CASE a \notin counted
      <4>1. counted' = counted /\ strays' = strays + 1 /\ spawnedAgents' = spawnedAgents - 1
        BY <2>4, <3>3 DEF Refund
      <4>2. QED
        BY <1>1, <3>1, <4>1
    <3>4. QED
      BY <3>2, <3>3
  <2>5. CASE spawnedAgents' = 0 /\ counted' = {} /\ strays' = 0
    BY <1>1, <2>5, FS_EmptySet
  <2>6. QED
    BY <1>3, <2>2, <2>3, <2>4, <2>5, UsageChanges DEF IInv
<1>4. QED
  BY <1>2, <1>3

-----------------------------------------------------------------------------
(* The theorems.                                                           *)

LEMMA StutterStep ==
    ASSUME IInv, UNCHANGED vars
    PROVE  IInv'
  BY DEF vars, IInv, TypeOK, QueueExact, Taken, SlotAccounting, Holders, NoIdleSlot,
     OpenGateIsServed, SetupStatus, ResumingRan, MayHaveSession, QueuedHasNotRun, Reports,
     InSetup

LEMMA NextIInv == IInv /\ [Next]_vars => IInv'
<1> SUFFICES ASSUME IInv, [Next]_vars PROVE IInv'
  OBVIOUS
<1>1. ASSUME NEW a \in Agents, NEW k \in SpawnKinds, SpawnAny(a, k) PROVE IInv'
  BY <1>1, SpawnQueuedStep, SpawnSetupStep, SpawnRunningStep, SpawnAbandonedStep DEF SpawnAny
<1>2. ASSUME NEW a \in Agents, Startup(a) PROVE IInv'
  BY <1>2, SetupDoneStep, SetupAbandonedStep, SetupFailedStep, SetupFailedDequeuedStep
     DEF Startup
<1>3. ASSUME NEW a \in Agents, AbandonDone(a) PROVE IInv'
  BY <1>3, AbandonDoneStep
<1>4. ASSUME NEW a \in Agents, Ending(a) PROVE IInv'
  BY <1>4, RunEndsStep, RunEndsInWorktreeStep DEF Ending
<1>5. ASSUME NEW a \in Agents, CleanupDone(a) PROVE IInv'
  BY <1>5, CleanupDoneStep
<1>6. ASSUME NEW a \in Agents, AbortWaiting(a) \/ AbortInSetup(a) \/ AbortRunning(a)
      PROVE  IInv'
  BY <1>6, AbortWaitingStep, AbortInSetupStep, AbortRunningStep
<1>7. ASSUME NEW a \in Agents, Resume(a) PROVE IInv'
  BY <1>7, ResumeStep
<1>8. ASSUME NEW a \in Agents, NEW o \in {"completed", "error"}, ResumeEnds(a, o)
      PROVE  IInv'
  BY <1>8, ResumeEndsStep
<1>9. ASSUME NEW n \in Limits, SetMaxConcurrent(n) PROVE IInv'
  BY <1>9, SetMaxConcurrentStep
<1>10. ASSUME NEW S \in SUBSET Agents, Cleanup(S) PROVE IInv'
  BY <1>10, CleanupStep
<1>11. CASE SessionSwitch \/ AbortAll \/ Dispose
  BY <1>11, SessionSwitchStep, AbortAllStep, DisposeStep
<1>12. CASE UNCHANGED vars
  BY <1>12, StutterStep
<1>13. QED
  BY <1>1, <1>2, <1>3, <1>4, <1>5, <1>6, <1>7, <1>8, <1>9, <1>10, <1>11, <1>12 DEF Next

LEMMA Invariance == Spec => []IInv
  BY InitIInv, NextIInv, PTL DEF Spec

\* Every variable of the manager stays in its type, whatever the callers do.
THEOREM TypeCorrect == Spec => []TypeOK
  BY Invariance, PTL DEF IInv

\* runningBackground, which throttles the queue in src/agent-manager.ts, is never
\* leaked or returned twice: it counts the runs that hold a slot.
THEOREM SlotsAccounted == Spec => []SlotAccounting
  BY Invariance, PTL DEF IInv

\* The background queue lists, once each, exactly the agents waiting for a slot.
THEOREM QueueIsExact == Spec => []QueueExact
  BY Invariance, PTL DEF IInv

\* Nobody waits in the queue while runningBackground is below maxConcurrent.
THEOREM NoSlotIdles == Spec => []NoIdleSlot
  BY Invariance, PTL DEF IInv

\* Every open completion promise has a tracked record and a suspended step left
\* that settles it.
THEOREM OpenGatesAreServed == Spec => []OpenGateIsServed
  BY Invariance, PTL DEF IInv

\* onComplete sees each finished background run once and no foreground run.
THEOREM ReportsAreExact == Spec => []ReportedOnce
<1>1. IInv => ReportedOnce
  BY DEF IInv, Reports, ReportedOnce
<1>2. QED
  BY <1>1, Invariance, PTL

\* maxAgentsPerSession bounds the agents a session accepts, counting only those
\* whose startup did not fail, but for the startups that spawn began before
\* resetSessionUsage and whose failure lowers the counter after it.
THEOREM LimitIsKept == Spec => []SessionLimitHolds
<1>1. Init => SessionLimitHolds /\ CountedAreBorn
  BY FS_EmptySet, LimitsAssumption DEF Init, SessionLimitHolds, CountedAreBorn
<1>2. IInv /\ SessionLimitHolds /\ CountedAreBorn /\ [Next]_vars
        => (SessionLimitHolds /\ CountedAreBorn)'
  BY LimitStep
<1>3. QED
  BY <1>1, <1>2, Invariance, PTL DEF Spec
-----------------------------------------------------------------------------
(* What a step does to one agent: the action properties.                   *)

\* Before its spawn an agent has neither a status nor a promise.
UnbornIsBlank == \A a \in Agents : pc[a] = "unborn" => status[a] = "none" /\ gate[a] = "none"

\* Only a worktree suspends the startup.
SetupNeedsWorktree == \A a \in Agents : InSetup(a) => args[a].wt

SInv == IInv /\ UnbornIsBlank /\ SetupNeedsWorktree

\* When the status of b may change: it is alive, or its run starts or ends and it
\* was not stopped; resume and the failed startup of a dequeued agent write over
\* a stop as well.
StatusMay(b) ==
    \/ status[b] \in Live
    \/ (InSetup(b) \/ pc[b] \in {"running", "cleanup"}) /\ status[b] # "stopped"
    \/ b \in resuming \cup resuming'
    \/ pc[b] = "setupDequeued"

\* A step spawns b, or changes its gate only while that is open and its status
\* only where StatusMay allows it; startup suspends for a worktree.
Moves(b) ==
    /\ \/ pc[b] = "unborn" /\ pc'[b] # "unborn"
       \/ /\ args'[b] = args[b]
          /\ gate'[b] = gate[b] \/ gate[b] = "open"
          /\ status'[b] = status[b] \/ StatusMay(b)
    /\ pc'[b] \in {"setup", "setupDequeued"} =>
          (pc'[b] = pc[b] /\ args'[b] = args[b]) \/ args'[b].wt

LEMMA SpawnMoves ==
    ASSUME TypeOK, NEW b \in Agents, NEW a \in Agents, NEW k \in SpawnKinds, SpawnAny(a, k)
    PROVE  Moves(b)
<1>1. pc[a] = "unborn" /\ pc'[a] # "unborn"
  BY DEF SpawnAny, SpawnQueued, SpawnSetup, SpawnRunning, SpawnAbandoned, NewRecord, TypeOK
<1>2. CASE b # a
  BY <1>2 DEF SpawnAny, SpawnQueued, SpawnSetup, SpawnRunning, SpawnAbandoned, NewRecord,
     TypeOK, Moves
<1>3. pc'[a] \in {"setup", "setupDequeued"} => args'[a].wt
  BY DEF SpawnAny, SpawnQueued, SpawnSetup, SpawnRunning, SpawnAbandoned, NewRecord, TypeOK
<1>4. QED
  BY <1>1, <1>2, <1>3 DEF Moves

LEMMA StartupMoves ==
    ASSUME TypeOK, NEW b \in Agents, NEW a \in Agents, Startup(a) \/ AbandonDone(a)
    PROVE  Moves(b)
<1>1. CASE SetupDone(a)
  BY <1>1 DEF SetupDone, StopWon, InSetup, TypeOK, Moves, StatusMay, Statuses, Live, Outcomes
<1>2. CASE SetupAbandoned(a) \/ SetupFailed(a) \/ SetupFailedDequeued(a) \/ AbandonDone(a)
  BY <1>2 DEF SetupAbandoned, SetupFailed, SetupFailedDequeued, AbandonDone, Settle, TypeOK,
     InSetup, Moves, StatusMay
<1>3. QED
  BY <1>1, <1>2 DEF Startup

\* drainQueue starts queued agents and touches nobody else.
LEMMA DrainMoves ==
    ASSUME NEW STATE st, NEW STATE p, NEW STATE rb, NEW STATE limit,
           DrainQueue(rb, st, p, limit), NEW b \in Agents
    PROVE  /\ status'[b] = st[b] \/ st[b] = "queued"
           /\ pc'[b] \in {"setup", "setupDequeued"} =>
                 pc'[b] = p[b] \/ args[b].wt
  BY DEF DrainQueue, Started

LEMMA ReleaseMoves ==
    ASSUME TypeOK, NEW b \in Agents, NEW a \in Agents, NEW STATE st,
           pc[a] \in {"running", "cleanup"}, Release(a, st), args' = args,
           \A c \in Agents : c # a => st[c] = status[c],
           st[a] = status[a] \/ status[a] # "stopped"
    PROVE  Moves(b)
<1> DEFINE p == [pc EXCEPT ![a] = "ended"]
<1>1. gate'[b] = gate[b] \/ gate[b] = "open"
  BY DEF Release, Settle, TypeOK
<1>2. \A c \in Agents : p[c] = IF c = a THEN "ended" ELSE pc[c]
  BY DEF TypeOK
<1>3. /\ status'[b] = st[b] \/ st[b] = "queued"
      /\ pc'[b] \in {"setup", "setupDequeued"} =>
            pc'[b] = p[b] \/ args[b].wt
  <2>1. CASE args[a].bg
    <3>1. DrainQueue(runningBackground - 1, st, p, maxConcurrent)
      BY <2>1 DEF Release
    <3> HIDE DEF p
    <3>2. QED
      BY <3>1, DrainMoves
  <2>2. CASE ~args[a].bg
    BY <2>2 DEF Release
  <2>3. QED
    BY <2>1, <2>2
<1>4. status'[b] = status[b] \/ StatusMay(b)
  BY <1>3 DEF StatusMay, Live
<1>5. QED
  BY <1>1, <1>2, <1>3, <1>4 DEF Moves

LEMMA EndingMoves ==
    ASSUME TypeOK, NEW b \in Agents, NEW a \in Agents, Ending(a) \/ CleanupDone(a)
    PROVE  Moves(b)
<1>1. ASSUME NEW o \in RunOutcomes, RunEnds(a, o) PROVE Moves(b)
  <2>1. /\ \A c \in Agents : c # a => FinalStatus(a, o)[c] = status[c]
        /\ FinalStatus(a, o)[a] = status[a] \/ status[a] # "stopped"
    BY DEF TypeOK, FinalStatus
  <2>2. QED
    BY <1>1, <2>1, ReleaseMoves DEF RunEnds
<1>2. ASSUME NEW o \in RunOutcomes, RunEndsInWorktree(a, o) PROVE Moves(b)
  BY <1>2 DEF RunEndsInWorktree, FinalStatus, TypeOK, Moves, StatusMay
<1>3. CASE CleanupDone(a)
  BY <1>3, ReleaseMoves DEF CleanupDone
<1>4. QED
  BY <1>1, <1>2, <1>3 DEF Ending

LEMMA CallMoves ==
    ASSUME TypeOK, NEW b \in Agents, NEW a \in Agents,
           \/ AbortWaiting(a) \/ AbortInSetup(a) \/ AbortRunning(a)
           \/ Resume(a)
           \/ \E o \in {"completed", "error"} : ResumeEnds(a, o)
    PROVE  Moves(b)
<1>1. CASE AbortWaiting(a) \/ AbortInSetup(a) \/ AbortRunning(a)
  BY <1>1 DEF AbortWaiting, AbortInSetup, StopQueued, AbortRunning, Settle, TypeOK, Moves,
     StatusMay, Live
<1>2. CASE Resume(a)
  BY <1>2 DEF Resume, TypeOK, Moves, StatusMay
<1>3. ASSUME NEW o \in {"completed", "error"}, ResumeEnds(a, o) PROVE Moves(b)
  BY <1>3 DEF ResumeEnds, TypeOK, Moves, StatusMay
<1>4. QED
  BY <1>1, <1>2, <1>3

LEMMA GlobalMoves ==
    ASSUME TypeOK, NEW b \in Agents,
           \/ \E n \in Limits : SetMaxConcurrent(n)
           \/ \E S \in SUBSET Agents : Cleanup(S)
           \/ SessionSwitch \/ AbortAll \/ Dispose
    PROVE  Moves(b)
<1>1. ASSUME NEW n \in Limits, SetMaxConcurrent(n) PROVE Moves(b)
  <2>1. /\ status'[b] = status[b] \/ status[b] = "queued"
        /\ pc'[b] \in {"setup", "setupDequeued"} =>
              pc'[b] = pc[b] \/ args[b].wt
    BY <1>1, DrainMoves DEF SetMaxConcurrent
  <2>2. args' = args /\ gate' = gate
    BY <1>1 DEF SetMaxConcurrent
  <2>3. QED
    BY <2>1, <2>2 DEF Moves, StatusMay, Live
<1>2. CASE (\E S \in SUBSET Agents : Cleanup(S)) \/ SessionSwitch
  BY <1>2 DEF Cleanup, SessionSwitch, RemoveRecords, Drop, TypeOK, Moves
<1>3. CASE AbortAll
  BY <1>3 DEF AbortAll, SettleAll, TypeOK, Moves, StatusMay
<1>4. CASE Dispose
  BY <1>4 DEF Dispose, SettleAll, Drop, TypeOK, Moves, StatusMay
<1>5. QED
  BY <1>1, <1>2, <1>3, <1>4

LEMMA EveryStepMoves ==
    ASSUME TypeOK, Next, NEW b \in Agents
    PROVE  Moves(b)
<1>1. ASSUME NEW a \in Agents, NEW k \in SpawnKinds, SpawnAny(a, k) PROVE Moves(b)
  BY <1>1, SpawnMoves
<1>2. ASSUME NEW a \in Agents, Startup(a) \/ AbandonDone(a) PROVE Moves(b)
  BY <1>2, StartupMoves
<1>3. ASSUME NEW a \in Agents, Ending(a) \/ CleanupDone(a) PROVE Moves(b)
  BY <1>3, EndingMoves
<1>4. ASSUME NEW a \in Agents,
             \/ AbortWaiting(a) \/ AbortInSetup(a) \/ AbortRunning(a)
             \/ Resume(a)
             \/ \E o \in {"completed", "error"} : ResumeEnds(a, o)
      PROVE  Moves(b)
  BY <1>4, CallMoves
<1>5. CASE \/ \E n \in Limits : SetMaxConcurrent(n)
           \/ \E S \in SUBSET Agents : Cleanup(S)
           \/ SessionSwitch \/ AbortAll \/ Dispose
  BY <1>5, GlobalMoves
<1>6. QED
  BY <1>1, <1>2, <1>3, <1>4, <1>5 DEF Next
LEMMA SInvStep ==
    ASSUME SInv, [Next]_vars
    PROVE  SInv'
<1>1. IInv'
  BY NextIInv DEF SInv
<1>2. CASE UNCHANGED vars
  BY <1>1, <1>2 DEF vars, SInv, UnbornIsBlank, SetupNeedsWorktree, InSetup
<1>3. CASE Next
  <2>1. IInv /\ TypeOK
    BY DEF SInv, IInv
  <2>2. \A b \in Agents : Moves(b)
    BY <1>3, <2>1, EveryStepMoves
  <2>3. UnbornIsBlank'
    <3> SUFFICES ASSUME NEW b \in Agents, pc'[b] = "unborn"
                 PROVE  status'[b] = "none" /\ gate'[b] = "none"
      BY DEF UnbornIsBlank
    <3>1. pc[b] = "unborn"
      BY <1>3, <2>1, BornForGood
    <3>2. status[b] = "none" /\ gate[b] = "none"
      BY <3>1 DEF SInv, UnbornIsBlank
    <3>3. gate'[b] = "none"
      BY <2>2, <3>1, <3>2 DEF Moves
    <3>4. b \notin resuming \cup resuming'
      BY <1>1, <2>1, <3>1 DEF IInv, ResumingRan, MayHaveSession
    <3>5. status'[b] = "none"
      BY <2>2, <3>1, <3>2, <3>4 DEF Moves, StatusMay, InSetup, Live
    <3>6. QED
      BY <3>3, <3>5
  <2>4. SetupNeedsWorktree'
    BY <2>2 DEF SInv, SetupNeedsWorktree, InSetup, Moves
  <2>5. QED
    BY <1>1, <2>3, <2>4 DEF SInv
<1>4. QED
  BY <1>2, <1>3

LEMMA SInvAlways == Spec => []SInv
<1>1. Init => SInv
  BY InitIInv DEF Init, SInv, UnbornIsBlank, SetupNeedsWorktree, InSetup
<1>2. QED
  BY <1>1, SInvStep, PTL DEF Spec

\* A stop is undone by resume() and by the failed startup of a dequeued agent only,
\* never by the run that winds down after it.
THEOREM StopsAreKept == Spec => StopIsKept
<1>1. ASSUME SInv, Next, NEW a \in Agents, status[a] = "stopped", status'[a] # "stopped"
      PROVE  a \in resuming \cup resuming' \/ pc[a] = "setupDequeued"
  <2>1. Moves(a)
    BY <1>1, EveryStepMoves DEF SInv, IInv
  <2>2. pc[a] # "unborn"
    BY <1>1 DEF SInv, UnbornIsBlank
  <2>3. QED
    BY <1>1, <2>1, <2>2 DEF Moves, StatusMay, Live
<1>2. SInv /\ [Next]_vars =>
        [\A a \in Agents : status[a] = "stopped" /\ status'[a] # "stopped" =>
            a \in resuming \cup resuming' \/ pc[a] = "setupDequeued"]_vars
  BY <1>1
<1>3. QED
  BY <1>2, SInvAlways, PTL DEF Spec, StopIsKept
-----------------------------------------------------------------------------
(* What the reader of a settled promise finds.                             *)

\* Where a run is over or will never be.
Past == {"abandoning", "cleanup", "ended", "neverRan"}

\* The record of b is final as soon as its run is over or its promise settled, and
\* only a startup that was not stopped can still start it.
RecordFits(b) ==
    /\ InSetup(b) => status[b] \in Live \cup {"stopped"}
    /\ b \in inMap /\ (pc[b] \in Past \/ gate[b] \in Settled) =>
          status[b] \notin Live \/ b \in resuming

RecordsFit == \A b \in Agents : RecordFits(b)

\* drainQueue starts agents that waited, whose promises are open.
LEMMA DrainFits ==
    ASSUME QueueExact, queue \in Seq(Agents),
           NEW STATE st, NEW STATE p, NEW STATE rb, NEW STATE limit, NEW b \in Agents,
           DrainQueue(rb, st, p, limit), UNCHANGED <<inMap, resuming>>,
           pc[b] = "waiting" => gate'[b] = "open" /\ p[b] = "waiting",
           p[b] \in {"setup", "setupDequeued"} => st[b] \in Live \cup {"stopped"},
           b \in inMap /\ (p[b] \in Past \/ gate'[b] \in Settled) =>
              st[b] \notin Live \/ b \in resuming
    PROVE  RecordFits(b)'
<1>1. PICK n \in 0..Len(queue) :
        /\ status' = [a \in Agents |-> IF a \in Started(st, n) THEN "running" ELSE st[a]]
        /\ pc' = [a \in Agents |-> IF a \in Started(st, n) THEN "running"
                                   ELSE IF a \in Taken(n) /\ st[a] = "queued"
                                        THEN "setupDequeued"
                                   ELSE p[a]]
  BY DEF DrainQueue
<1>2. Taken(n) \subseteq Taken(Len(queue))
  BY DEF Taken
<1>3. CASE b \in Taken(n)
  <2>1. gate'[b] = "open" /\ p[b] = "waiting"
    BY <1>2, <1>3 DEF QueueExact
  <2>2. pc'[b] \in {"running", "setupDequeued", "waiting"}
    BY <1>1, <2>1
  <2>3. pc'[b] = "setupDequeued" => status'[b] = "queued"
    BY <1>1, <2>1 DEF Started
  <2>4. QED
    BY <2>1, <2>2, <2>3 DEF RecordFits, InSetup, Past, Settled, Live
<1>4. CASE b \notin Taken(n)
  <2>1. pc'[b] = p[b] /\ status'[b] = st[b]
    BY <1>1, <1>4 DEF Started
  <2>2. QED
    BY <2>1 DEF RecordFits, InSetup
<1>5. QED
  BY <1>3, <1>4

LEMMA ReleaseFits ==
    ASSUME IInv, NEW b \in Agents, RecordFits(b), NEW a \in Agents, NEW STATE st,
           pc[a] \in {"running", "cleanup"}, Release(a, st), UNCHANGED <<inMap, resuming>>,
           \A c \in Agents : c # a => st[c] = status[c],
           a \in inMap => st[a] \notin Live \/ a \in resuming
    PROVE  RecordFits(b)'
<1> DEFINE p == [pc EXCEPT ![a] = "ended"]
<1>1. \A c \in Agents : p[c] = IF c = a THEN "ended" ELSE pc[c]
  BY DEF IInv, TypeOK
<1>2. \A c \in Agents : c # a => gate'[c] = gate[c]
  BY DEF Release, Settle, IInv, TypeOK
<1>3. /\ p[b] \in {"setup", "setupDequeued"} => st[b] \in Live \cup {"stopped"}
      /\ b \in inMap /\ (p[b] \in Past \/ gate'[b] \in Settled) =>
            st[b] \notin Live \/ b \in resuming
  BY <1>1, <1>2 DEF RecordFits, InSetup, Past
<1>4. pc[b] = "waiting" => gate'[b] = "open" /\ p[b] = "waiting"
  BY <1>1, <1>2 DEF IInv, QueueExact
<1>5. CASE args[a].bg
  <2>1. DrainQueue(runningBackground - 1, st, p, maxConcurrent)
    BY <1>5 DEF Release
  <2> HIDE DEF p
  <2>2. QED
    BY <1>3, <1>4, <2>1, DrainFits DEF IInv, TypeOK
<1>6. CASE ~args[a].bg
  <2>1. status' = st /\ pc' = p
    BY <1>6 DEF Release
  <2>2. QED
    BY <1>3, <2>1 DEF RecordFits, InSetup
<1>7. QED
  BY <1>5, <1>6

LEMMA SpawnFits ==
    ASSUME IInv, NEW b \in Agents, RecordFits(b),
           NEW a \in Agents, NEW k \in SpawnKinds, SpawnAny(a, k)
    PROVE  RecordFits(b)'
<1> USE DEF IInv, TypeOK, RecordFits, InSetup, Past, Settled, Live, NewRecord
<1>1. CASE SpawnQueued(a, k) \/ SpawnRunning(a, k)
  BY <1>1 DEF SpawnQueued, SpawnRunning
<1>2. CASE SpawnSetup(a, k) \/ SpawnAbandoned(a, k)
  BY <1>2 DEF SpawnSetup, SpawnAbandoned
<1>3. QED
  BY <1>1, <1>2 DEF SpawnAny

\* A startup goes on only if nobody stopped the agent, and then the promise is open.
LEMMA StartupFits ==
    ASSUME IInv, NEW b \in Agents, RecordFits(b),
           NEW a \in Agents, Startup(a) \/ AbandonDone(a)
    PROVE  RecordFits(b)'
<1> USE DEF IInv, TypeOK, RecordFits, InSetup, Past, Settled, Live
<1>1. CASE SetupDone(a)
  <2>1. b = a => b \notin resuming
    BY <1>1 DEF SetupDone, ResumingRan, MayHaveSession
  <2>2. QED
    BY <1>1, <2>1 DEF SetupDone, StopWon
<1>2. CASE SetupAbandoned(a) \/ AbandonDone(a)
  BY <1>2 DEF SetupAbandoned, AbandonDone, StopWon, Settle
<1>3. CASE SetupFailed(a) \/ SetupFailedDequeued(a)
  BY <1>3 DEF SetupFailed, SetupFailedDequeued, Settle
<1>4. QED
  BY <1>1, <1>2, <1>3 DEF Startup

LEMMA EndingFits ==
    ASSUME IInv, RecordsFit, NEW b \in Agents,
           NEW a \in Agents, Ending(a) \/ CleanupDone(a)
    PROVE  RecordFits(b)'
<1>1. ASSUME NEW o \in RunOutcomes
      PROVE  /\ \A c \in Agents : c # a => FinalStatus(a, o)[c] = status[c]
             /\ FinalStatus(a, o)[a] \notin Live
  BY OutcomesAssumption DEF IInv, TypeOK, FinalStatus, Live
<1>2. ASSUME NEW o \in RunOutcomes, RunEnds(a, o) PROVE RecordFits(b)'
  BY <1>1, <1>2, ReleaseFits DEF RunEnds, RecordsFit
<1>3. ASSUME NEW o \in RunOutcomes, RunEndsInWorktree(a, o) PROVE RecordFits(b)'
  BY <1>1, <1>3 DEF RunEndsInWorktree, IInv, TypeOK, RecordsFit, RecordFits, InSetup, Past
<1>4. CASE CleanupDone(a)
  <2>1. a \in inMap => status[a] \notin Live \/ a \in resuming
    BY <1>4 DEF CleanupDone, RecordsFit, RecordFits, Past
  <2>2. QED
    BY <1>4, <2>1, ReleaseFits DEF CleanupDone, RecordsFit
<1>5. QED
  BY <1>2, <1>3, <1>4 DEF Ending

LEMMA CallFits ==
    ASSUME IInv, NEW b \in Agents, RecordFits(b), NEW a \in Agents,
           \/ AbortWaiting(a) \/ AbortInSetup(a) \/ AbortRunning(a)
           \/ Resume(a)
           \/ \E o \in {"completed", "error"} : ResumeEnds(a, o)
    PROVE  RecordFits(b)'
<1> USE DEF IInv, TypeOK, RecordFits, InSetup, Past, Settled, Live
<1>1. CASE AbortWaiting(a)
  BY <1>1 DEF AbortWaiting, StopQueued, Settle
<1>2. CASE AbortInSetup(a)
  BY <1>2 DEF AbortInSetup, StopQueued, Settle
<1>3. CASE AbortRunning(a)
  BY <1>3 DEF AbortRunning
<1>4. CASE Resume(a)
  BY <1>4 DEF Resume, MayHaveSession
<1>5. ASSUME NEW o \in {"completed", "error"}, ResumeEnds(a, o) PROVE RecordFits(b)'
  BY <1>5 DEF ResumeEnds, ResumingRan, MayHaveSession
<1>6. QED
  BY <1>1, <1>2, <1>3, <1>4, <1>5

LEMMA GlobalFits ==
    ASSUME IInv, NEW b \in Agents, RecordFits(b),
           \/ \E n \in Limits : SetMaxConcurrent(n)
           \/ \E S \in SUBSET Agents : Cleanup(S)
           \/ SessionSwitch \/ AbortAll \/ Dispose
    PROVE  RecordFits(b)'
<1>1. ASSUME NEW n \in Limits, SetMaxConcurrent(n) PROVE RecordFits(b)'
  <2>1. /\ DrainQueue(runningBackground, status, pc, Larger(1, n))
        /\ UNCHANGED <<inMap, resuming, gate>>
    BY <1>1 DEF SetMaxConcurrent
  <2>2. /\ pc[b] = "waiting" => gate[b] = "open"
        /\ pc[b] \in {"setup", "setupDequeued"} => status[b] \in Live \cup {"stopped"}
        /\ b \in inMap /\ (pc[b] \in Past \/ gate[b] \in Settled) =>
              status[b] \notin Live \/ b \in resuming
    BY DEF IInv, QueueExact, RecordFits, InSetup
  <2>3. QED
    BY <2>1, <2>2, DrainFits DEF IInv, TypeOK
<1> USE DEF IInv, TypeOK, RecordFits, InSetup, Past, Settled, Live
<1>2. CASE (\E S \in SUBSET Agents : Cleanup(S)) \/ SessionSwitch
  BY <1>2 DEF Cleanup, SessionSwitch, RemoveRecords, Drop
<1>3. CASE AbortAll
  BY <1>3 DEF AbortAll, SettleAll
<1>4. CASE Dispose
  BY <1>4 DEF Dispose
<1>5. QED
  BY <1>1, <1>2, <1>3, <1>4

\* Who awaits a promise finds the record final, unless resume() has made it live
\* again, in every order of aborts, startups, ends of runs and shutdown.
THEOREM AwaitedIsFinal == Spec => []SettledIsFinal
<1>1. Init => RecordsFit
  BY DEF Init, RecordsFit, RecordFits, InSetup
<1>2. ASSUME IInv, RecordsFit, [Next]_vars PROVE RecordsFit'
  <2> SUFFICES ASSUME NEW b \in Agents PROVE RecordFits(b)'
    BY DEF RecordsFit
  <2>1. RecordFits(b)
    BY <1>2 DEF RecordsFit
  <2>2. CASE UNCHANGED vars
    BY <2>1, <2>2 DEF vars, RecordFits, InSetup
  <2>3. ASSUME NEW a \in Agents, NEW k \in SpawnKinds, SpawnAny(a, k) PROVE RecordFits(b)'
    BY <1>2, <2>1, <2>3, SpawnFits
  <2>4. ASSUME NEW a \in Agents, Startup(a) \/ AbandonDone(a) PROVE RecordFits(b)'
    BY <1>2, <2>1, <2>4, StartupFits
  <2>5. ASSUME NEW a \in Agents, Ending(a) \/ CleanupDone(a) PROVE RecordFits(b)'
    BY <1>2, <2>5, EndingFits
  <2>6. ASSUME NEW a \in Agents,
               \/ AbortWaiting(a) \/ AbortInSetup(a) \/ AbortRunning(a)
               \/ Resume(a)
               \/ \E o \in {"completed", "error"} : ResumeEnds(a, o)
        PROVE  RecordFits(b)'
    BY <1>2, <2>1, <2>6, CallFits
  <2>7. CASE \/ \E n \in Limits : SetMaxConcurrent(n)
             \/ \E S \in SUBSET Agents : Cleanup(S)
             \/ SessionSwitch \/ AbortAll \/ Dispose
    BY <1>2, <2>1, <2>7, GlobalFits
  <2>8. QED
    BY <1>2, <2>2, <2>3, <2>4, <2>5, <2>6, <2>7 DEF Next
<1>3. IInv /\ RecordsFit => SettledIsFinal
  BY DEF IInv, TypeOK, RecordsFit, RecordFits, SettledIsFinal
<1>4. QED
  BY <1>1, <1>2, <1>3, Invariance, PTL DEF Spec
-----------------------------------------------------------------------------
(* Who leaves the queue to start: only drainQueue starts a waiting agent,  *)
(* and it takes a prefix of the queue.                                     *)

StartsIn(b) == pc'[b] \in {"running", "setupDequeued"}

\* Of two entries of the queue, the later starts only if the earlier waits no more.
InOrder ==
    \A i, j \in 1..Len(queue) :
        i < j /\ StartsIn(queue[j]) => pc'[queue[i]] # "waiting"

\* A waiting agent starts in no step but drainQueue's.
NoneStarts == \A b \in Agents : pc[b] = "waiting" => ~StartsIn(b)

LEMMA DrainIsInOrder ==
    ASSUME TypeOK, QueueExact,
           NEW STATE st, NEW STATE p, NEW STATE rb, NEW STATE limit,
           DrainQueue(rb, st, p, limit),
           \A b \in Agents : pc[b] = "waiting" => p[b] = "waiting" /\ st[b] = "queued"
    PROVE  InOrder
<1>1. PICK n \in 0..Len(queue) :
        pc' = [a \in Agents |-> IF a \in Started(st, n) THEN "running"
                                ELSE IF a \in Taken(n) /\ st[a] = "queued"
                                     THEN "setupDequeued"
                                ELSE p[a]]
  BY DEF DrainQueue
<1>2. Len(queue) \in Nat /\ \A i \in 1..Len(queue) : queue[i] \in Agents
  BY DEF TypeOK
<1>3. \A i \in 1..Len(queue) : p[queue[i]] = "waiting" /\ st[queue[i]] = "queued"
  BY <1>2 DEF QueueExact, Taken
<1> SUFFICES ASSUME NEW i \in 1..Len(queue), NEW j \in 1..Len(queue), i < j,
                    StartsIn(queue[j])
             PROVE  pc'[queue[i]] # "waiting"
  BY DEF InOrder
<1>4. queue[j] \in Taken(n)
  BY <1>1, <1>2, <1>3 DEF StartsIn, Started
<1>5. j \in 1..n
  BY <1>2, <1>4 DEF Taken, QueueExact
<1>6. queue[i] \in Taken(n)
  BY <1>2, <1>5 DEF Taken
<1>7. QED
  BY <1>1, <1>2, <1>3, <1>6

LEMMA NoneStartsIsInOrder ==
    ASSUME TypeOK, QueueExact, NoneStarts
    PROVE  InOrder
<1>1. Len(queue) \in Nat /\ \A i \in 1..Len(queue) : queue[i] \in Agents
  BY DEF TypeOK
<1>2. \A i \in 1..Len(queue) : pc[queue[i]] = "waiting"
  BY <1>1 DEF QueueExact, Taken
<1>3. QED
  BY <1>1, <1>2 DEF NoneStarts, InOrder

LEMMA ReleaseIsInOrder ==
    ASSUME TypeOK, QueueExact, NEW a \in Agents, NEW STATE st,
           pc[a] \in {"running", "cleanup"}, Release(a, st),
           \A c \in Agents : c # a => st[c] = status[c]
    PROVE  InOrder
<1> DEFINE p == [pc EXCEPT ![a] = "ended"]
<1>1. \A c \in Agents : p[c] = IF c = a THEN "ended" ELSE pc[c]
  BY DEF TypeOK
<1>2. CASE args[a].bg
  <2>1. DrainQueue(runningBackground - 1, st, p, maxConcurrent)
    BY <1>2 DEF Release
  <2>2. \A b \in Agents : pc[b] = "waiting" => p[b] = "waiting" /\ st[b] = "queued"
    BY <1>1 DEF QueueExact
  <2> HIDE DEF p
  <2>3. QED
    BY <2>1, <2>2, DrainIsInOrder
<1>3. CASE ~args[a].bg
  <2>1. pc' = p
    BY <1>3 DEF Release
  <2>2. NoneStarts
    BY <1>1, <2>1 DEF NoneStarts, StartsIn
  <2>3. QED
    BY <2>2, NoneStartsIsInOrder
<1>4. QED
  BY <1>2, <1>3

LEMMA StepIsInOrder ==
    ASSUME TypeOK, QueueExact, Next
    PROVE  InOrder
<1>1. ASSUME NEW a \in Agents, NEW k \in SpawnKinds, SpawnAny(a, k) PROVE NoneStarts
  BY <1>1 DEF SpawnAny, SpawnQueued, SpawnSetup, SpawnRunning, SpawnAbandoned, NewRecord,
     TypeOK, NoneStarts, StartsIn
<1>2. ASSUME NEW a \in Agents, Startup(a) \/ AbandonDone(a) PROVE NoneStarts
  BY <1>2 DEF Startup, SetupDone, SetupAbandoned, SetupFailed, SetupFailedDequeued,
     AbandonDone, InSetup, TypeOK, NoneStarts, StartsIn
<1>3. ASSUME NEW a \in Agents, Ending(a) \/ CleanupDone(a) PROVE InOrder
  <2>1. ASSUME NEW o \in RunOutcomes, RunEnds(a, o) PROVE InOrder
    <3>1. \A c \in Agents : c # a => FinalStatus(a, o)[c] = status[c]
      BY DEF TypeOK, FinalStatus
    <3>2. QED
      BY <2>1, <3>1, ReleaseIsInOrder DEF RunEnds
  <2>2. ASSUME NEW o \in RunOutcomes, RunEndsInWorktree(a, o) PROVE NoneStarts
    BY <2>2 DEF RunEndsInWorktree, TypeOK, NoneStarts, StartsIn
  <2>3. CASE CleanupDone(a)
    BY <2>3, ReleaseIsInOrder DEF CleanupDone
  <2>4. QED
    BY <1>3, <2>1, <2>2, <2>3, NoneStartsIsInOrder DEF Ending
<1>4. ASSUME NEW a \in Agents,
             \/ AbortWaiting(a) \/ AbortInSetup(a) \/ AbortRunning(a)
             \/ Resume(a)
             \/ \E o \in {"completed", "error"} : ResumeEnds(a, o)
      PROVE  NoneStarts
  BY <1>4 DEF AbortWaiting, AbortInSetup, AbortRunning, Resume, ResumeEnds, TypeOK,
     NoneStarts, StartsIn
<1>5. ASSUME NEW n \in Limits, SetMaxConcurrent(n) PROVE InOrder
  BY <1>5, DrainIsInOrder DEF SetMaxConcurrent, QueueExact
<1>6. CASE (\E S \in SUBSET Agents : Cleanup(S)) \/ SessionSwitch \/ AbortAll \/ Dispose
  <2>1. NoneStarts
    BY <1>6 DEF Cleanup, SessionSwitch, AbortAll, Dispose, NoneStarts, StartsIn
  <2>2. QED
    BY <2>1, NoneStartsIsInOrder
<1>7. QED
  BY <1>1, <1>2, <1>3, <1>4, <1>5, <1>6, NoneStartsIsInOrder DEF Next

\* The background queue is first in, first out: drainQueue starts nobody while an
\* agent queued earlier keeps waiting.
THEOREM QueueIsFifo == Spec => FifoStart
<1>1. ASSUME IInv, Next
      PROVE  \A i, j \in 1..Len(queue) :
                i < j /\ pc'[queue[j]] \in {"running", "setupDequeued"}
                    => pc'[queue[i]] # "waiting"
  <2>1. InOrder
    BY <1>1, StepIsInOrder DEF IInv
  <2>2. QED
    BY <2>1 DEF InOrder, StartsIn
<1>2. IInv /\ [Next]_vars =>
        [\A i, j \in 1..Len(queue) :
            i < j /\ pc'[queue[j]] \in {"running", "setupDequeued"}
                => pc'[queue[i]] # "waiting"]_vars
  BY <1>1
<1>3. QED
  BY <1>2, Invariance, PTL DEF Spec, FifoStart
-----------------------------------------------------------------------------
(* The limit: drainQueue itself never starts a run above it.               *)

\* A step that takes a slot above the limit does so for a worktree or a bypass.
WithinLimit ==
    runningBackground' > runningBackground /\ runningBackground' > maxConcurrent' =>
        \E a \in Holders' \ Holders : args'[a].wt \/ args'[a].bypass

\* One more entry takes at most one more slot.
LEMMA SlotsGrowByOne ==
    ASSUME TypeOK, NEW STATE st, NEW STATE rb, rb \in Int, NEW n \in 1..Len(queue)
    PROVE  /\ SlotsAfter(rb, st, n) \in Int /\ SlotsAfter(rb, st, n - 1) \in Int
           /\ SlotsAfter(rb, st, n) <= SlotsAfter(rb, st, n - 1) + 1
<1> DEFINE S == Started(st, n)
           T == Started(st, n - 1)
<1>1. Len(queue) \in Nat /\ \A i \in 1..Len(queue) : queue[i] \in Agents
  BY DEF TypeOK
<1>2. S \subseteq Agents /\ T \subseteq Agents
  BY <1>1 DEF Started, Taken
<1>3. S \subseteq T \cup {queue[n]}
  BY <1>1 DEF Started, Taken
<1>4. IsFiniteSet(S) /\ IsFiniteSet(T) /\ Cardinality(S) \in Nat /\ Cardinality(T) \in Nat
  BY <1>2, AgentsAssumption, FS_Subset, FS_CardinalityType
<1> HIDE DEF S, T
<1>5. /\ IsFiniteSet(T \cup {queue[n]})
      /\ Cardinality(T \cup {queue[n]}) <= Cardinality(T) + 1
  <2>1. Cardinality(T \cup {queue[n]}) =
           IF queue[n] \in T THEN Cardinality(T) ELSE Cardinality(T) + 1
    BY <1>4, FS_AddElement
  <2>2. QED
    BY <1>4, <2>1, FS_AddElement
<1>6. Cardinality(S) <= Cardinality(T \cup {queue[n]})
  BY <1>3, <1>5, FS_Subset
<1>7. Cardinality(T \cup {queue[n]}) \in Nat
  BY <1>5, FS_CardinalityType
<1>8. Cardinality(S) <= Cardinality(T) + 1
  BY <1>4, <1>5, <1>6, <1>7
<1>9. SlotsAfter(rb, st, n) = rb + Cardinality(S)
  BY DEF SlotsAfter, S
<1>10. SlotsAfter(rb, st, n - 1) = rb + Cardinality(T)
  BY DEF SlotsAfter, T
<1>11. QED
  BY <1>4, <1>8, <1>9, <1>10

LEMMA DrainWithinLimit ==
    ASSUME TypeOK, NEW STATE st, NEW STATE p, NEW STATE rb, NEW STATE limit,
           DrainQueue(rb, st, p, limit), rb \in Int, limit \in Int,
           rb <= runningBackground, maxConcurrent' = limit
    PROVE  WithinLimit
<1>1. PICK n \in 0..Len(queue) :
         StopsAfter(rb, st, limit, n) /\ runningBackground' = SlotsAfter(rb, st, n)
  BY DEF DrainQueue
<1>2. runningBackground \in Int /\ Len(queue) \in Nat
  BY DEF TypeOK
<1>3. CASE n = 0
  <2>1. Started(st, 0) = {}
    BY DEF Started, Taken
  <2>2. runningBackground' = rb
    BY <1>1, <1>3, <2>1, FS_EmptySet DEF SlotsAfter
  <2>3. QED
    BY <1>2, <2>2 DEF WithinLimit
<1>4. CASE n # 0
  <2>1. n \in 1..Len(queue) /\ n - 1 \in 0..(n - 1)
    BY <1>2, <1>4
  <2>2. SlotsAfter(rb, st, n - 1) < limit
    BY <1>1, <2>1 DEF StopsAfter
  <2>3. /\ SlotsAfter(rb, st, n) \in Int /\ SlotsAfter(rb, st, n - 1) \in Int
        /\ SlotsAfter(rb, st, n) <= SlotsAfter(rb, st, n - 1) + 1
    BY <2>1, SlotsGrowByOne
  <2>4. ~(runningBackground' > limit)
    BY <1>1, <2>2, <2>3
  <2>5. QED
    BY <2>4 DEF WithinLimit
<1>5. QED
  BY <1>3, <1>4

LEMMA ReleaseWithinLimit ==
    ASSUME TypeOK, NEW a \in Agents, NEW STATE st, Release(a, st),
           maxConcurrent' = maxConcurrent
    PROVE  WithinLimit
<1> DEFINE p == [pc EXCEPT ![a] = "ended"]
<1>1. runningBackground \in Int /\ maxConcurrent \in Int
  BY DEF TypeOK
<1>2. CASE args[a].bg
  <2>1. DrainQueue(runningBackground - 1, st, p, maxConcurrent)
    BY <1>2 DEF Release
  <2> HIDE DEF p
  <2>2. runningBackground - 1 \in Int /\ runningBackground - 1 <= runningBackground
    BY <1>1
  <2>3. QED
    BY <1>1, <2>1, <2>2, DrainWithinLimit
<1>3. CASE ~args[a].bg
  BY <1>1, <1>3 DEF Release, WithinLimit
<1>4. QED
  BY <1>2, <1>3

LEMMA SpawnWithinLimit ==
    ASSUME TypeOK, NEW a \in Agents, NEW k \in SpawnKinds, SpawnAny(a, k)
    PROVE  WithinLimit
<1>1. runningBackground \in Int /\ maxConcurrent \in Int
  BY DEF TypeOK
<1>2. CASE SpawnRunning(a, k) /\ k.bg
  <2>1. /\ runningBackground' = runningBackground + 1
        /\ maxConcurrent' = maxConcurrent
        /\ ~MustQueue(k)
        /\ a \in Holders' \ Holders
        /\ args'[a] = k
    BY <1>2 DEF SpawnRunning, NewRecord, Holders, TypeOK
  <2>2. k.bypass \/ ~(runningBackground >= maxConcurrent)
    BY <1>2, <2>1 DEF MustQueue
  <2>3. QED
    BY <1>1, <2>1, <2>2 DEF WithinLimit
<1>3. CASE ~(SpawnRunning(a, k) /\ k.bg)
  <2>1. runningBackground' = runningBackground
    BY <1>3 DEF SpawnAny, SpawnQueued, SpawnSetup, SpawnRunning, SpawnAbandoned
  <2>2. QED
    BY <1>1, <2>1 DEF WithinLimit
<1>4. QED
  BY <1>2, <1>3

LEMMA StartupWithinLimit ==
    ASSUME TypeOK, SetupNeedsWorktree, NEW a \in Agents, Startup(a)
    PROVE  WithinLimit
<1>1. runningBackground \in Int
  BY DEF TypeOK
<1>2. CASE SetupDone(a) /\ args[a].bg
  <2>1. a \in Holders' \ Holders
    BY <1>2 DEF SetupDone, InSetup, Holders, TypeOK
  <2>2. args'[a].wt
    BY <1>2 DEF SetupDone, SetupNeedsWorktree
  <2>3. QED
    BY <2>1, <2>2 DEF WithinLimit
<1>3. CASE ~(SetupDone(a) /\ args[a].bg)
  <2>1. runningBackground' \in {runningBackground, runningBackground - 1}
    BY <1>3 DEF Startup, SetupDone, SetupAbandoned, SetupFailed, SetupFailedDequeued
  <2>2. QED
    BY <1>1, <2>1 DEF WithinLimit
<1>4. QED
  BY <1>2, <1>3

LEMMA StepWithinLimit ==
    ASSUME TypeOK, SetupNeedsWorktree, Next
    PROVE  WithinLimit
<1>1. runningBackground \in Int /\ maxConcurrent \in Int
  BY DEF TypeOK
<1>2. ASSUME runningBackground' = runningBackground PROVE WithinLimit
  BY <1>1, <1>2 DEF WithinLimit
<1>3. ASSUME NEW a \in Agents, NEW k \in SpawnKinds, SpawnAny(a, k) PROVE WithinLimit
  BY <1>3, SpawnWithinLimit
<1>4. ASSUME NEW a \in Agents, Startup(a) PROVE WithinLimit
  BY <1>4, StartupWithinLimit
<1>5. ASSUME NEW a \in Agents, Ending(a) \/ CleanupDone(a) PROVE WithinLimit
  <2>1. ASSUME NEW o \in RunOutcomes, RunEnds(a, o) PROVE WithinLimit
    BY <2>1, ReleaseWithinLimit DEF RunEnds
  <2>2. ASSUME NEW o \in RunOutcomes, RunEndsInWorktree(a, o) PROVE WithinLimit
    BY <1>2, <2>2 DEF RunEndsInWorktree
  <2>3. CASE CleanupDone(a)
    BY <2>3, ReleaseWithinLimit DEF CleanupDone
  <2>4. QED
    BY <1>5, <2>1, <2>2, <2>3 DEF Ending
<1>6. ASSUME NEW a \in Agents,
             \/ AbandonDone(a) \/ AbortWaiting(a) \/ AbortInSetup(a) \/ AbortRunning(a)
             \/ Resume(a)
             \/ \E o \in {"completed", "error"} : ResumeEnds(a, o)
      PROVE  WithinLimit
  BY <1>2, <1>6 DEF AbandonDone, AbortWaiting, AbortInSetup, StopQueued, AbortRunning, Resume,
     ResumeEnds
<1>7. ASSUME NEW n \in Limits, SetMaxConcurrent(n) PROVE WithinLimit
  <2>1. Larger(1, n) \in Int
    BY LimitsAssumption DEF Larger
  <2>2. DrainQueue(runningBackground, status, pc, Larger(1, n))
        /\ maxConcurrent' = Larger(1, n)
    BY <1>7 DEF SetMaxConcurrent
  <2>3. QED
    BY <1>1, <2>1, <2>2, DrainWithinLimit
<1>8. CASE (\E S \in SUBSET Agents : Cleanup(S)) \/ SessionSwitch \/ AbortAll \/ Dispose
  BY <1>2, <1>8 DEF Cleanup, SessionSwitch, AbortAll, Dispose
<1>9. QED
  BY <1>3, <1>4, <1>5, <1>6, <1>7, <1>8 DEF Next

\* A slot above maxConcurrent is taken only by an agent that asked not to be queued
\* or whose worktree was created after spawn or drainQueue looked at the counter.
THEOREM OnlySetupOvershoots == Spec => OvershootOnlyBySetup
<1>1. ASSUME SInv, Next,
             runningBackground' > runningBackground, runningBackground' > maxConcurrent'
      PROVE  \E a \in Holders' \ Holders : args'[a].wt \/ args'[a].bypass
  <2>1. WithinLimit
    BY <1>1, StepWithinLimit DEF SInv, IInv
  <2>2. QED
    BY <1>1, <2>1 DEF WithinLimit
<1>2. SInv /\ [Next]_vars =>
        [runningBackground' > runningBackground /\ runningBackground' > maxConcurrent' =>
            \E a \in Holders' \ Holders : args'[a].wt \/ args'[a].bypass]_vars
  BY <1>1
<1>3. QED
  BY <1>2, SInvAlways, PTL DEF Spec, OvershootOnlyBySetup
=============================================================================
