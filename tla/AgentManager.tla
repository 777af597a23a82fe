---------------------------- MODULE AgentManager ----------------------------
(***************************************************************************)
(* The life of every agent tracked by AgentManager (src/agent-manager.ts): *)
(* spawn, the background queue and its concurrency limit, asynchronous     *)
(* startup (worktree creation), the run itself, finalisation, abort,       *)
(* resume, removal of finished records, shutdown, and the completion       *)
(* promise each record is given by spawn().                                *)
(*                                                                         *)
(* JavaScript runs one handler at a time: an action is the code between    *)
(* two awaits.  The awaits of the code are the values of pc.               *)
(***************************************************************************)
EXTENDS Integers, Sequences, FiniteSets

CONSTANTS
    Agents,         \* the ids spawn() may hand out; a bound on the number of spawns
    SpawnKinds,     \* the option records callers pass to spawn()
    Limits,         \* the values setMaxConcurrent() is called with
    DefaultLimit,   \* the maxConcurrent the constructor is given
    RunOutcomes,    \* the ways a run may end in the instance
    SessionLimit,   \* sessionLimits.maxAgentsPerSession, 0 when there is none
    MaxResumes      \* a bound on the number of resume() calls

\* isBackground, isolation = "worktree", bypassQueue, and "the parent signal
\* was already aborted when spawn() was called" (foreground agents, and the
\* members of a foreground crew or swarm, which are background records).
SpawnKind == [bg : BOOLEAN, wt : BOOLEAN, bypass : BOOLEAN, preAborted : BOOLEAN]

ASSUME SpawnKindsAssumption == SpawnKinds \subseteq SpawnKind
ASSUME OutcomesAssumption ==
    RunOutcomes \subseteq {"completed", "aborted", "steered", "error"}
ASSUME AgentsAssumption == IsFiniteSet(Agents)
ASSUME LimitsAssumption ==
    /\ Limits \subseteq Nat
    /\ DefaultLimit \in Nat \ {0}
    /\ SessionLimit \in Nat
    /\ MaxResumes \in Nat

VARIABLES
    status,             \* record.status ("none" before spawn)
    pc,                 \* where startAgent and the run it wires are suspended
    args,               \* the options the agent was spawned with
    inMap,              \* keys of this.agents
    queue,              \* ids in this.queue
    runningBackground,  \* this.runningBackground
    maxConcurrent,      \* this.maxConcurrent
    gate,               \* record.promise and its entry in completionGates
    completions,        \* how often onComplete was called with the record
    spawnedAgents,      \* this.sessionUsage.spawnedAgents
    counted,            \* history: the agents accepted since the counter was reset
    strays,             \* history: refunds since then for agents accepted before
    resuming,           \* agents with a resume() in flight
    resumes,            \* number of resume() calls so far
    phase               \* the extension's session: open, closing, disposed

usage == <<spawnedAgents, counted, strays>>
vars == <<status, pc, args, inMap, queue, runningBackground, maxConcurrent,
          gate, completions, usage, resuming, resumes, phase>>

\* What a run can end with; "stopped" is only ever written by abort.
Outcomes == {"completed", "aborted", "steered", "error"}
Live     == {"queued", "running"}
Statuses == {"none", "stopped"} \cup Live \cup Outcomes

\* waiting: in the queue.          setup, setupDequeued: awaiting createWorktree,
\* started by spawn / drainQueue.  running: awaiting runAgent.
\* cleanup: finalizeAgent awaiting cleanupWorktree.
\* abandoning: abandonStartup awaiting cleanupWorktree.
\* ended: the run is over.         neverRan: startup was abandoned or failed.
PCs == {"unborn", "waiting", "setup", "setupDequeued", "running", "cleanup",
        "abandoning", "ended", "neverRan"}

\* dropped: the entry was deleted from completionGates before it settled, so
\* nothing can settle the promise any more.
GateStates == {"none", "open", "resolved", "rejected", "dropped"}
Settled    == {"resolved", "rejected"}

Larger(m, n) == IF m > n THEN m ELSE n

InSetup(a) == pc[a] \in {"setup", "setupDequeued"}

\* onSessionCreated is called some time during the run.
MayHaveSession(a) == pc[a] \in {"running", "cleanup", "ended"}

-----------------------------------------------------------------------------
(* Completion gates.                                                       *)

\* Mutant: the gate is not settled at all.
SettleNever(g, a, how) == g

\* resolveCompletion and rejectCompletion: a gate settles once, and only while
\* it is in completionGates.
Settle(g, a, how) == IF g[a] = "open" THEN [g EXCEPT ![a] = how] ELSE g

SettleAll(g, S, how) == [a \in Agents |-> IF a \in S /\ g[a] = "open" THEN how ELSE g[a]]

\* removeRecord and dispose delete the entries of the gates.
Drop(g, S) == [a \in Agents |-> IF a \in S /\ g[a] = "open" THEN "dropped" ELSE g[a]]

-----------------------------------------------------------------------------
(* drainQueue: dequeue until a slot count reaches the limit.  An entry that *)
(* needs a worktree suspends before it takes its slot.                      *)

\* Mutant: the newest entries are taken first.
TakenNewest(n) == {queue[i] : i \in (Len(queue) - n + 1)..Len(queue)}

Taken(n) == {queue[i] : i \in 1..n}

\* The agents among the first n entries that reach runAgent in the same step.
Started(st, n) == {a \in Taken(n) : st[a] = "queued" /\ ~args[a].wt}

\* Mutant: startAgent does not count the slot.
SlotsUncounted(rb, st, n) == rb

\* runningBackground after the loop has consumed n entries.
SlotsAfter(rb, st, n) == rb + Cardinality(Started(st, n))

\* Mutant: nothing is dequeued.
StopsAtOnce(rb, st, limit, n) == n = 0

\* The loop stops at the first n where the queue is used up or the limit reached.
StopsAfter(rb, st, limit, n) ==
    /\ n = Len(queue) \/ SlotsAfter(rb, st, n) >= limit
    /\ \A m \in 0..(n - 1) : SlotsAfter(rb, st, m) < limit

DrainQueue(rb, st, p, limit) ==
    \E n \in 0..Len(queue) :
        /\ StopsAfter(rb, st, limit, n)
        /\ queue' = SubSeq(queue, n + 1, Len(queue))
        /\ status' = [a \in Agents |-> IF a \in Started(st, n) THEN "running" ELSE st[a]]
        /\ pc' = [a \in Agents |-> IF a \in Started(st, n) THEN "running"
                                   ELSE IF a \in Taken(n) /\ st[a] = "queued"
                                        THEN "setupDequeued"
                                   ELSE p[a]]
        /\ runningBackground' = SlotsAfter(rb, st, n)

-----------------------------------------------------------------------------
NoKind == [bg |-> FALSE, wt |-> FALSE, bypass |-> FALSE, preAborted |-> FALSE]

Init ==
    /\ status = [a \in Agents |-> "none"]
    /\ pc = [a \in Agents |-> "unborn"]
    /\ args = [a \in Agents |-> NoKind]
    /\ inMap = {}
    /\ queue = <<>>
    /\ runningBackground = 0
    /\ maxConcurrent = DefaultLimit
    /\ gate = [a \in Agents |-> "none"]
    /\ completions = [a \in Agents |-> 0]
    /\ spawnedAgents = 0
    /\ counted = {}
    /\ strays = 0
    /\ resuming = {}
    /\ resumes = 0
    /\ phase = "open"

\* After dispose() the host calls nothing any more; what is in flight finishes.
CallsAllowed == phase # "disposed"

-----------------------------------------------------------------------------
(* spawn                                                                   *)

\* Mutant: one agent too many is accepted.
SessionHasRoomLate == SessionLimit = 0 \/ spawnedAgents <= SessionLimit

\* spawn() throws, changing nothing, when the session's agent limit is reached.
SessionHasRoom == SessionLimit = 0 \/ spawnedAgents < SessionLimit

\* Mutants: one slot is never used; one agent too many is started.
MustQueueEarly(k) == k.bg /\ ~k.bypass /\ runningBackground >= maxConcurrent - 1
MustQueueLate(k) == k.bg /\ ~k.bypass /\ runningBackground > maxConcurrent

MustQueue(k) == k.bg /\ ~k.bypass /\ runningBackground >= maxConcurrent

\* The record, its gate and the counter: common to every way spawn continues.
NewRecord(a, k) ==
    /\ CallsAllowed
    /\ pc[a] = "unborn"
    /\ SessionHasRoom
    /\ args' = [args EXCEPT ![a] = k]
    /\ inMap' = inMap \cup {a}
    /\ spawnedAgents' = spawnedAgents + 1
    /\ counted' = counted \cup {a}
    /\ UNCHANGED <<maxConcurrent, resuming, resumes, phase, strays>>

\* abort() by a signal that is aborted already: a background record is still
\* "queued" then, so it is settled and reported on the spot.
StoppedAtOnce(a, k) ==
    completions' = IF k.preAborted /\ k.bg THEN [completions EXCEPT ![a] = @ + 1]
                                           ELSE completions

\* No free slot: the agent waits in the queue.
SpawnQueued(a, k) ==
    /\ NewRecord(a, k)
    /\ MustQueue(k)
    /\ ~k.preAborted
    /\ status' = [status EXCEPT ![a] = "queued"]
    /\ pc' = [pc EXCEPT ![a] = "waiting"]
    /\ queue' = Append(queue, a)
    /\ gate' = [gate EXCEPT ![a] = "open"]
    /\ UNCHANGED <<runningBackground, completions>>

\* startAgent suspends in createWorktree; no slot is taken yet.
SpawnSetup(a, k) ==
    /\ NewRecord(a, k)
    /\ ~MustQueue(k)
    /\ k.wt
    /\ status' = [status EXCEPT ![a] = IF k.preAborted THEN "stopped"
                                       ELSE IF k.bg THEN "queued" ELSE "running"]
    /\ pc' = [pc EXCEPT ![a] = "setup"]
    /\ gate' = [gate EXCEPT ![a] = IF k.preAborted /\ k.bg THEN "resolved" ELSE "open"]
    /\ StoppedAtOnce(a, k)
    /\ UNCHANGED <<queue, runningBackground>>

\* Without a worktree startAgent reaches runAgent in the same step.
SpawnRunning(a, k) ==
    /\ NewRecord(a, k)
    /\ ~MustQueue(k)
    /\ ~k.wt
    /\ ~k.preAborted
    /\ status' = [status EXCEPT ![a] = "running"]
    /\ pc' = [pc EXCEPT ![a] = "running"]
    /\ runningBackground' = IF k.bg THEN runningBackground + 1 ELSE runningBackground
    /\ gate' = [gate EXCEPT ![a] = "open"]
    /\ UNCHANGED <<queue, completions>>

\* The caller's signal is aborted already: startup is abandoned on the spot, or
\* the fan-out aborts its queued members before anything else runs.
SpawnAbandoned(a, k) ==
    /\ NewRecord(a, k)
    /\ k.preAborted
    /\ MustQueue(k) \/ ~k.wt
    /\ status' = [status EXCEPT ![a] = "stopped"]
    /\ pc' = [pc EXCEPT ![a] = "neverRan"]
    /\ gate' = [gate EXCEPT ![a] = "resolved"]
    /\ StoppedAtOnce(a, k)
    /\ UNCHANGED <<queue, runningBackground>>

-----------------------------------------------------------------------------
(* startAgent after createWorktree                                         *)

\* Mutant: the status is not looked at again after createWorktree.
StopIgnored(a) == FALSE

\* Abort won during worktree setup.  Every abort of a tracked agent marks it
\* stopped, so the two signals the code also tests need no variable.
StopWon(a) == status[a] = "stopped"

\* The worktree exists and nobody stopped the agent: take a slot and run.
SetupDone(a) ==
    /\ InSetup(a)
    /\ ~StopWon(a)
    /\ status' = [status EXCEPT ![a] = "running"]
    /\ pc' = [pc EXCEPT ![a] = "running"]
    /\ runningBackground' = IF args[a].bg THEN runningBackground + 1 ELSE runningBackground
    /\ UNCHANGED <<args, inMap, queue, maxConcurrent, gate, completions,
                   usage, resuming, resumes, phase>>

\* Otherwise abandonStartup cleans the worktree up ...
SetupAbandoned(a) ==
    /\ InSetup(a)
    /\ StopWon(a)
    /\ pc' = [pc EXCEPT ![a] = "abandoning"]
    /\ UNCHANGED <<status, args, inMap, queue, runningBackground, maxConcurrent, gate,
                   completions, usage, resuming, resumes, phase>>

\* ... and then resolves the promise.
AbandonDone(a) ==
    /\ pc[a] = "abandoning"
    /\ pc' = [pc EXCEPT ![a] = "neverRan"]
    /\ gate' = Settle(gate, a, "resolved")
    /\ UNCHANGED <<status, args, inMap, queue, runningBackground, maxConcurrent,
                   completions, usage, resuming, resumes, phase>>

\* A spawn that failed does not use up the session: the counter is lowered even
\* when it has been reset since.
Refund(a) ==
    /\ spawnedAgents' = spawnedAgents - 1
    /\ counted' = counted \ {a}
    /\ strays' = IF a \in counted THEN strays ELSE strays + 1

\* createWorktree failed; spawn()'s catch forgets the record.
SetupFailed(a) ==
    /\ pc[a] = "setup"
    /\ pc' = [pc EXCEPT ![a] = "neverRan"]
    /\ Refund(a)
    /\ gate' = Settle(gate, a, "rejected")
    /\ inMap' = inMap \ {a}
    /\ UNCHANGED <<status, args, queue, runningBackground, maxConcurrent, completions,
                   resuming, resumes, phase>>

\* createWorktree failed; drainQueue's catch keeps the record as an error and
\* reports it, whatever happened to the agent meanwhile.
SetupFailedDequeued(a) ==
    /\ pc[a] = "setupDequeued"
    /\ pc' = [pc EXCEPT ![a] = "neverRan"]
    /\ Refund(a)
    /\ runningBackground' = IF status[a] = "running" THEN runningBackground - 1
                                                     ELSE runningBackground
    /\ status' = [status EXCEPT ![a] = "error"]
    /\ gate' = Settle(gate, a, "rejected")
    /\ completions' = [completions EXCEPT ![a] = @ + 1]
    /\ UNCHANGED <<args, inMap, queue, maxConcurrent, resuming, resumes, phase>>

-----------------------------------------------------------------------------
(* The end of a run: the .then/.catch of runAgent and finalizeAgent         *)

\* Mutant: the outcome of the run always wins.
FinalStatusOverwrites(a, o) == [status EXCEPT ![a] = o]

\* An agent stopped by abort stays stopped.
FinalStatus(a, o) ==
    [status EXCEPT ![a] = IF @ = "stopped" THEN "stopped" ELSE o]

\* The tail of finalizeAgent: give the slot back, report, drain; then the
\* promise resolves (the run's .catch returns, so it never rejects).
Release(a, st) ==
    LET p == [pc EXCEPT ![a] = "ended"]
    IN  /\ gate' = Settle(gate, a, "resolved")
        /\ IF args[a].bg
           THEN /\ completions' = [completions EXCEPT ![a] = @ + 1]
                /\ DrainQueue(runningBackground - 1, st, p, maxConcurrent)
           ELSE /\ status' = st
                /\ pc' = p
                /\ UNCHANGED <<completions, queue, runningBackground>>

\* Without a worktree finalizeAgent does not suspend.
RunEnds(a, o) ==
    /\ pc[a] = "running"
    /\ ~args[a].wt
    /\ Release(a, FinalStatus(a, o))
    /\ UNCHANGED <<args, inMap, maxConcurrent, usage, resuming, resumes, phase>>

\* With one, the record is final but the slot is held across cleanupWorktree.
RunEndsInWorktree(a, o) ==
    /\ pc[a] = "running"
    /\ args[a].wt
    /\ status' = FinalStatus(a, o)
    /\ pc' = [pc EXCEPT ![a] = "cleanup"]
    /\ UNCHANGED <<args, inMap, queue, runningBackground, maxConcurrent, gate,
                   completions, usage, resuming, resumes, phase>>

CleanupDone(a) ==
    /\ pc[a] = "cleanup"
    /\ Release(a, status)
    /\ UNCHANGED <<args, inMap, maxConcurrent, usage, resuming, resumes, phase>>

-----------------------------------------------------------------------------
(* abort, resume                                                           *)

\* abort() of a queued record: finalizeAgent will not run, so the promise and
\* onComplete are served here.
StopQueued(a) ==
    /\ CallsAllowed
    /\ a \in inMap
    /\ status[a] = "queued"
    /\ status' = [status EXCEPT ![a] = "stopped"]
    /\ gate' = Settle(gate, a, "resolved")
    /\ completions' = [completions EXCEPT ![a] = @ + 1]
    /\ UNCHANGED <<args, inMap, runningBackground, maxConcurrent, usage,
                   resuming, resumes, phase>>

\* Mutant: the aborted agent stays in the queue.
SkipNothing(s, i) == s

\* s without its i-th element.
SkipAt(s, i) == [j \in 1..(Len(s) - 1) |-> IF j < i THEN s[j] ELSE s[j + 1]]

\* It is still in the queue and leaves it.
AbortWaiting(a) ==
    /\ StopQueued(a)
    /\ pc' = [pc EXCEPT ![a] = "neverRan"]
    /\ \E i \in 1..Len(queue) : queue[i] = a /\ queue' = SkipAt(queue, i)

\* It was dequeued, or never queued, and startAgent is in worktree setup.
AbortInSetup(a) ==
    /\ StopQueued(a)
    /\ \A i \in 1..Len(queue) : queue[i] # a
    /\ UNCHANGED <<pc, queue>>

\* abort() of a running record: signalled and stopped at once, the run winds
\* down later.
AbortRunning(a) ==
    /\ CallsAllowed
    /\ a \in inMap
    /\ status[a] = "running"
    /\ status' = [status EXCEPT ![a] = "stopped"]
    /\ UNCHANGED <<pc, args, inMap, queue, runningBackground, maxConcurrent, gate,
                   completions, usage, resuming, resumes, phase>>

\* resume() looks at the session only, not at the status or the queue.
Resume(a) ==
    /\ CallsAllowed
    /\ resumes < MaxResumes
    /\ a \in inMap \ resuming
    /\ MayHaveSession(a)
    /\ status' = [status EXCEPT ![a] = "running"]
    /\ resuming' = resuming \cup {a}
    /\ resumes' = resumes + 1
    /\ UNCHANGED <<pc, args, inMap, queue, runningBackground, maxConcurrent, gate,
                   completions, usage, phase>>

\* resumeAgent returned or threw; the status is overwritten unconditionally.
ResumeEnds(a, o) ==
    /\ a \in resuming
    /\ o \in {"completed", "error"}
    /\ status' = [status EXCEPT ![a] = o]
    /\ resuming' = resuming \ {a}
    /\ UNCHANGED <<pc, args, inMap, queue, runningBackground, maxConcurrent, gate,
                   completions, usage, resumes, phase>>

-----------------------------------------------------------------------------
(* Settings, removal of finished records, session and shutdown             *)

SetMaxConcurrent(n) ==
    /\ CallsAllowed
    /\ maxConcurrent' = Larger(1, n)
    /\ DrainQueue(runningBackground, status, pc, Larger(1, n))
    /\ UNCHANGED <<args, inMap, gate, completions, usage, resuming, resumes, phase>>

\* clearCompleted and cleanup skip queued and running records only.
Removable == {a \in inMap : status[a] \notin Live}

RemoveRecords(S) ==
    /\ inMap' = inMap \ S
    /\ gate' = Drop(gate, S)

\* The periodic cleanup: the records that finished longer than the TTL ago.
Cleanup(S) ==
    /\ CallsAllowed
    /\ S \subseteq Removable
    /\ S # {}
    /\ RemoveRecords(S)
    /\ UNCHANGED <<status, pc, args, queue, runningBackground, maxConcurrent,
                   completions, usage, resuming, resumes, phase>>

\* session_start and session_before_switch: clearCompleted, resetSessionUsage.
SessionSwitch ==
    /\ phase = "open"
    /\ RemoveRecords(Removable)
    /\ spawnedAgents' = 0 /\ counted' = {} /\ strays' = 0
    /\ UNCHANGED <<status, pc, args, queue, runningBackground, maxConcurrent,
                   completions, resuming, resumes, phase>>

\* session_shutdown, first half: abortAll.
AbortAll ==
    LET queued == {a \in inMap : status[a] = "queued"}
    IN  /\ phase = "open"
        /\ phase' = "closing"
        /\ queue' = <<>>
        /\ status' = [a \in Agents |-> IF a \in inMap /\ status[a] \in Live
                                       THEN "stopped" ELSE status[a]]
        /\ pc' = [a \in Agents |-> IF a \in queued /\ pc[a] = "waiting"
                                   THEN "neverRan" ELSE pc[a]]
        /\ gate' = SettleAll(gate, queued, "resolved")
        /\ completions' = [a \in Agents |-> IF a \in queued THEN completions[a] + 1
                                                           ELSE completions[a]]
        /\ UNCHANGED <<args, inMap, runningBackground, maxConcurrent, usage,
                       resuming, resumes>>

\* session_shutdown, second half: dispose, after the batch orchestrator's.
Dispose ==
    LET live == {a \in inMap : status[a] \in Live}
    IN  /\ phase = "closing"
        /\ phase' = "disposed"
        /\ queue' = <<>>
        /\ status' = [a \in Agents |-> IF a \in live THEN "stopped" ELSE status[a]]
        /\ pc' = [a \in Agents |-> IF a \in live /\ pc[a] = "waiting"
                                   THEN "neverRan" ELSE pc[a]]
        /\ gate' = Drop(SettleAll(gate, live, "resolved"), Agents)
        /\ inMap' = {}
        /\ UNCHANGED <<args, runningBackground, maxConcurrent, completions,
                       usage, resuming, resumes>>

-----------------------------------------------------------------------------
Startup(a) == SetupDone(a) \/ SetupAbandoned(a) \/ SetupFailed(a) \/ SetupFailedDequeued(a)

Ending(a) == \E o \in RunOutcomes : RunEnds(a, o) \/ RunEndsInWorktree(a, o)

SpawnAny(a, k) ==
    \/ SpawnQueued(a, k)
    \/ SpawnSetup(a, k)
    \/ SpawnRunning(a, k)
    \/ SpawnAbandoned(a, k)

Next ==
    \/ \E a \in Agents :
        \/ \E k \in SpawnKinds : SpawnAny(a, k)
        \/ Startup(a)
        \/ AbandonDone(a)
        \/ Ending(a)
        \/ CleanupDone(a)
        \/ AbortWaiting(a)
        \/ AbortInSetup(a)
        \/ AbortRunning(a)
        \/ Resume(a)
        \/ \E o \in {"completed", "error"} : ResumeEnds(a, o)
    \/ \E n \in Limits : SetMaxConcurrent(n)
    \/ \E S \in SUBSET Agents : Cleanup(S)
    \/ SessionSwitch
    \/ AbortAll
    \/ Dispose

Spec == Init /\ [][Next]_vars

\* git commands run under timeouts, and a run is bounded by its turn limits or
\* ends when its abort signal fires: what is awaited comes back.
Fairness ==
    \A a \in Agents :
        /\ WF_vars(Startup(a))
        /\ WF_vars(AbandonDone(a))
        /\ WF_vars(Ending(a))
        /\ WF_vars(CleanupDone(a))

FairSpec == Spec /\ Fairness
-----------------------------------------------------------------------------
(* Properties                                                              *)

\* Every variable stays in its type.
TypeOK ==
    /\ status \in [Agents -> Statuses]
    /\ pc \in [Agents -> PCs]
    /\ args \in [Agents -> SpawnKinds \cup {NoKind}]
    /\ inMap \subseteq Agents
    /\ queue \in Seq(Agents)
    /\ runningBackground \in Int
    /\ maxConcurrent \in Nat \ {0}
    /\ gate \in [Agents -> GateStates]
    /\ completions \in [Agents -> Nat]
    /\ spawnedAgents \in Int
    /\ counted \subseteq Agents
    /\ strays \in Nat
    /\ resuming \subseteq Agents
    /\ resumes \in Nat
    /\ phase \in {"open", "closing", "disposed"}

Holders == {a \in Agents : args[a].bg /\ pc[a] \in {"running", "cleanup"}}

\* No slot is leaked and none is given back twice: the counter that throttles
\* the queue is the number of background agents whose run has started and whose
\* finalizeAgent has not given the slot back, through aborts, resumes, failed
\* startups, removals of live records and shutdown.
SlotAccounting == runningBackground = Cardinality(Holders)

\* The session's limit: the counter is what the session has accepted and not seen
\* fail, less the startups that began before the last reset and failed after it,
\* and only as many agents as there were of these get past maxAgentsPerSession.
SessionLimitHolds ==
    /\ spawnedAgents = Cardinality(counted) - strays
    /\ SessionLimit > 0 => Cardinality(counted) <= SessionLimit + strays

\* The queue loses nobody and keeps nobody too long: it lists, once each, the
\* agents that wait for a slot, and those are tracked, still "queued", and
\* owed a promise.
QueueExact ==
    /\ \A i, j \in 1..Len(queue) : queue[i] = queue[j] => i = j
    /\ Taken(Len(queue)) = {a \in Agents : pc[a] = "waiting"}
    /\ \A a \in Agents : pc[a] = "waiting" =>
          status[a] = "queued" /\ a \in inMap /\ gate[a] = "open" /\ args[a].bg

\* drainQueue runs wherever a slot may have become free, so nobody waits while
\* one is.
NoIdleSlot == queue # <<>> => runningBackground >= maxConcurrent

\* A promise that is still open belongs to a tracked record and there is a
\* suspended step of spawn, startAgent or finalizeAgent left to settle it.
OpenGateIsServed ==
    \A a \in Agents : gate[a] = "open" =>
        a \in inMap /\ pc[a] \notin {"unborn", "ended", "neverRan"}

\* onComplete, which feeds joins, notifications and the history, sees every
\* finished background run exactly once and no foreground one.
ReportedOnce ==
    \A a \in Agents : pc[a] = "ended" => completions[a] = (IF args[a].bg THEN 1 ELSE 0)

\* Who has awaited the promise and then reads the record finds it final, however
\* the promise was settled: abort settles it while startAgent awaits a worktree,
\* which must not start the agent then, and the end of a run or of a startup
\* after it has written the status.  Only resume() makes the record live again.
SettledIsFinal ==
    \A a \in inMap : gate[a] \in Settled => status[a] \notin Live \/ a \in resuming

\* A stop is not undone by the run that winds down afterwards; only resume()
\* and the failed startup of a dequeued agent overwrite it.
StopIsKept ==
    [][\A a \in Agents : status[a] = "stopped" /\ status'[a] # "stopped" =>
            a \in resuming \cup resuming' \/ pc[a] = "setupDequeued"]_vars

\* "The queue is FIFO": nobody leaves the queue to start while an agent queued
\* earlier keeps waiting.
FifoStart ==
    [][\A i, j \in 1..Len(queue) :
            i < j /\ pc'[queue[j]] \in {"running", "setupDequeued"}
                => pc'[queue[i]] # "waiting"]_vars

\* Only a bypassQueue spawn or a worktree start takes a slot above the limit.
OvershootOnlyBySetup ==
    [][runningBackground' > runningBackground /\ runningBackground' > maxConcurrent' =>
            \E a \in Holders' \ Holders : args'[a].wt \/ args'[a].bypass]_vars

\* Nobody waits in the queue for ever.
QueueDrains == \A a \in Agents : pc[a] = "waiting" ~> pc[a] # "waiting"

\* Whoever awaits record.promise is answered, unless the record was removed.
PromiseSettles == \A a \in Agents : gate[a] = "open" ~> gate[a] # "open"
=============================================================================
