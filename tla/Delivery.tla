------------------------------ MODULE Delivery ------------------------------
(***************************************************************************)
(* How the result of a background agent reaches the caller.                *)
(*                                                                         *)
(* A spawned agent may enter the current batch of BatchOrchestrator; when  *)
(* the batch is finalised its members become a group (GroupJoin), a swarm  *)
(* (SwarmJoin) or stay alone.  onComplete (src/index.ts) routes a finished *)
(* agent to its group, to its swarm or to a message of its own.  Messages  *)
(* are held by NotificationHub for 200 ms under a key, and a message with  *)
(* the same key replaces one that is held.  Meanwhile get_subagent_result  *)
(* reads a result, or waits for it; a wait can be cancelled.               *)
(*                                                                         *)
(* Every callback of the event loop is one action: none of them awaits     *)
(* between its first and its last change of this state.                    *)
(***************************************************************************)
EXTENDS GroupJoin, SwarmJoin, Integers, Sequences, SequencesExt

CONSTANTS
    Agents,         \* records of the manager
    SingleModes,    \* join modes a single background spawn may have
    DispatchModes,  \* join modes of a crew or a swarm
    MaxBatches,     \* bound on batchCounter
    Watched,        \* the agents that some call waits for
    MaxWaiters,     \* bound on the calls that wait for one agent
    RateLimit       \* maxDeliveryRate

ASSUME AgentsAssumption == IsFiniteSet(Agents) /\ Watched \subseteq Agents
ASSUME ModesAssumption ==
    /\ SingleModes \subseteq {"async", "smart", "group", "swarm"}
    /\ DispatchModes \subseteq {"smart", "group", "swarm"}
ASSUME BoundsAssumption ==
    /\ MaxBatches \in Nat /\ MaxWaiters \in Nat /\ RateLimit \in Nat \ {0}

Batches == 1 .. MaxBatches

VARIABLES
    run,        \* where the agent is: see Runs
    mode,       \* record.joinMode
    batch,      \* currentBatch
    partial,    \* pendingPartialFanout is set
    batches,    \* batchCounter
    desk,       \* the groups, the swarms and the messages held: see Desks
    consumed,   \* record.resultConsumed
    waiting,    \* activeWaiters
    settled,    \* agents with promiseSettled in their wait state
    announced,  \* how many messages have carried the result
    answered,   \* history: agents whose result a call has returned
    lingered,   \* history: agents stopped while running
    recovered   \* history: agents announced because all their waiters cancelled

batching == <<batch, partial, batches>>
reading == <<consumed, waiting, settled>>
history == <<answered, lingered, recovered>>
vars == <<run, mode, batching, desk, reading, announced, history>>

\* live: queued or running.  ended: completedAt is set and onComplete has not
\* been called: abort() stops a running agent, whose run ends later.
Runs == {"none", "live", "ended", "reported"}

Keys == ({"agent"} \X Agents) \cup ({"group"} \X SUBSET Agents) \cup ({"swarm"} \X Batches)

\* groups, swarms: by the number of their batch.  pending: of NotificationHub.
\* refused: completed agents their delivered swarm did not take.
\* overtaken: agents of a held message replaced by one without them.
Desks == [groups : [Batches -> GroupState(Agents)], swarms : [Batches -> SwarmState(Agents)],
          pending : SUBSET [key : Keys, recs : SUBSET Agents],
          refused : SUBSET Agents, overtaken : SUBSET Agents]

Init ==
    /\ run = [a \in Agents |-> "none"]
    /\ mode = [a \in Agents |-> "async"]
    /\ batch = <<>> /\ partial = FALSE /\ batches = 0
    /\ desk = [groups |-> [b \in Batches |-> NoGroup], swarms |-> [b \in Batches |-> NoSwarm],
               pending |-> {}, refused |-> {}, overtaken |-> {}]
    /\ consumed = [a \in Agents |-> FALSE]
    /\ waiting = [a \in Agents |-> 0]
    /\ announced = [a \in Agents |-> 0]
    /\ settled = {} /\ answered = {} /\ lingered = {} /\ recovered = {}

-----------------------------------------------------------------------------
(* Posting a message and routing a completion, as functions of the desk.   *)

Held(d, key) == {m \in d.pending : m.key = key}

\* NotificationHub.schedule
Post(d, key, R) ==
    [d EXCEPT !.pending = (@ \ Held(d, key)) \cup {[key |-> key, recs |-> R]},
              !.overtaken = @ \cup ((UNION {m.recs : m \in Held(d, key)}) \ R)]

\* NotificationHub.cancel
Cancel(d, key) == [d EXCEPT !.pending = @ \ Held(d, key)]

PostIndividual(d, a) == Post(d, <<"agent", a>>, {a})

\* Messages of their own for all of R.
PostIndividuals(d, R) ==
    [d EXCEPT !.pending = {m \in @ : \A a \in R : m.key # <<"agent", a>>}
                          \cup {[key |-> <<"agent", a>>, recs |-> {a}] : a \in R}]

\* groupJoin.onAgentComplete for the agents of A, with the delivery callback of
\* index.ts: only the last of them can make the group full.
GroupHandles(d, b, A) ==
    LET g == d.groups[b]
        R == g.done \cup A
    IN  IF GroupFull(g, A)
        THEN Post([d EXCEPT !.groups[b] = NoGroup], <<"group", R>>, R)
        ELSE [d EXCEPT !.groups[b] = GroupHolds(g, A)]

\* swarmJoin.onAgentComplete with the delivery callback of index.ts
SwarmHandles(d, b, a) ==
    LET s == d.swarms[b]
        e == [d EXCEPT !.swarms[b] = SwarmAfter(s, a, RateLimit)]
    IN  IF SwarmDelivers(s, a, RateLimit)
        THEN Post(e, <<"swarm", b>>, s.done \cup {a})
        ELSE e

\* The end of onComplete: the coordinator that knows the agent, or a message
\* of its own.
Route(d, a) ==
    LET inGroup == {b \in Batches : GroupTakes(d.groups[b], a)}
        inSwarm == {b \in Batches : SwarmTakes(d.swarms[b], a)}
    IN  IF inGroup # {} THEN GroupHandles(d, CHOOSE b \in inGroup : TRUE, {a})
        ELSE IF inSwarm # {} THEN SwarmHandles(d, CHOOSE b \in inSwarm : TRUE, a)
        ELSE PostIndividual(d, a)

\* onComplete: nothing for a consumed result, nothing while the batch is open.
OnComplete(a) ==
    IF consumed[a] \/ a \in ToSet(batch) THEN desk ELSE Route(desk, a)

\* Mutant: the batch is finalised as if nobody had completed yet.
DueNever(a) == FALSE

\* The record is complete and nobody has read it: finalizeBatch handles it.
Due(a) == run[a] \in {"ended", "reported"} /\ ~consumed[a]

\* finalizeBatch, its smart and group members S: a group that is told at once of
\* those who have completed.
WithGroup(d, b, S) ==
    LET e == [d EXCEPT !.groups[b] = RegisterGroup(S)]
        completed == {a \in S : Due(a)}
    IN  IF completed = {} THEN e ELSE GroupHandles(e, b, completed)

\* finalizeBatch, one swarm member: added and, if it is complete, handled
\* before the next one is added.
JoinSwarm(d, b, a) ==
    LET e == [d EXCEPT !.swarms[b] = AddToSwarm(@, a)]
    IN  IF ~Due(a) THEN e
        ELSE IF SwarmTakes(e.swarms[b], a) THEN SwarmHandles(e, b, a)
        ELSE [e EXCEPT !.refused = @ \cup {a}]

\* finalizeBatch, the swarm members among q with modes m, in order.
WithSwarm(d, b, q, m) ==
    LET after[i \in 0 .. Len(q)] ==
            IF i = 0 THEN [d EXCEPT !.swarms[b] = CreateSwarm]
            ELSE IF m[q[i]] = "swarm" THEN JoinSwarm(after[i - 1], b, q[i])
            ELSE after[i - 1]
    IN  after[Len(q)]

\* finalizeBatch for the members q with modes m as batch number b: a group from
\* two on, or when members are missing.
Finalize(q, m, missing, b) ==
    LET smart == {a \in ToSet(q) : m[a] \in {"smart", "group"}}
        grouped == Cardinality(smart) >= 2 \/ (missing /\ smart # {})
        d == IF grouped THEN WithGroup(desk, b, smart) ELSE desk
        e == IF \E a \in ToSet(q) : m[a] = "swarm" THEN WithSwarm(d, b, q, m) ELSE d
    IN  IF grouped THEN e ELSE PostIndividuals(e, {a \in smart : Due(a)})

-----------------------------------------------------------------------------
(* Spawning, alone or as a crew or swarm.                                  *)

\* The waiters of a reported agent go on in the same turn of the event loop:
\* no timer fires and no call starts before they have.
NewTurn == \A a \in Agents : run[a] = "reported" => waiting[a] = 0

\* The Agent tool spawns one background agent; addToBatch unless "async".
SpawnOne(a, m) ==
    /\ NewTurn
    /\ run[a] = "none" /\ (m = "async" \/ batches < MaxBatches)
    /\ run' = [run EXCEPT ![a] = "live"]
    /\ mode' = [mode EXCEPT ![a] = m]
    /\ batch' = IF m = "async" THEN batch ELSE Append(batch, a)
    /\ UNCHANGED <<partial, batches, desk, reading, announced, history>>

New(q) == \A a \in ToSet(q) : run[a] = "none"

\* runOrchestratedDispatch: all members are spawned, then the batch, with what
\* was in it before, is flushed.
Dispatch(q, m) ==
    LET modes == [a \in Agents |-> IF a \in ToSet(q) THEN m ELSE mode[a]]
    IN  /\ NewTurn /\ q # <<>> /\ New(q) /\ batches < MaxBatches
        /\ run' = [a \in Agents |-> IF a \in ToSet(q) THEN "live" ELSE run[a]]
        /\ mode' = modes
        /\ desk' = Finalize(batch \o q, modes, partial, batches + 1)
        /\ batch' = <<>> /\ partial' = FALSE /\ batches' = batches + 1
        /\ UNCHANGED <<reading, announced, history>>

\* runOrchestratedDispatch when a spawn after those of q throws: they are
\* aborted, the queued ones report at once (into the open batch, so in
\* silence), the running ones later; the batch is marked, not flushed.
DispatchFails(q, m) ==
    /\ NewTurn /\ q # <<>> /\ New(q) /\ batches < MaxBatches
    /\ \E running \in SUBSET ToSet(q) :
          /\ run' = [a \in Agents |-> IF a \in running THEN "ended"
                                      ELSE IF a \in ToSet(q) THEN "reported" ELSE run[a]]
          /\ lingered' = lingered \cup running
    /\ mode' = [a \in Agents |-> IF a \in ToSet(q) THEN m ELSE mode[a]]
    /\ batch' = batch \o q /\ partial' = TRUE
    /\ UNCHANGED <<batches, desk, reading, announced, answered, recovered>>

\* The debounce timer of the batch.
FinalizeBatch ==
    /\ NewTurn /\ batch # <<>>
    /\ desk' = Finalize(batch, mode, partial, batches + 1)
    /\ batch' = <<>> /\ partial' = FALSE /\ batches' = batches + 1
    /\ UNCHANGED <<run, mode, reading, announced, history>>

-----------------------------------------------------------------------------
(* The end of an agent.                                                    *)

\* onComplete, then the promise settles.
Reported(a) ==
    /\ run' = [run EXCEPT ![a] = "reported"]
    /\ desk' = OnComplete(a)
    /\ UNCHANGED <<mode, batching, reading, announced, history>>

\* The run ends by itself, or abort() takes the agent from the queue.
Finish(a) == run[a] = "live" /\ Reported(a)

\* abort() of a running agent: its record is terminal, its run goes on.
Stop(a) ==
    /\ run[a] = "live"
    /\ run' = [run EXCEPT ![a] = "ended"]
    /\ lingered' = lingered \cup {a}
    /\ UNCHANGED <<mode, batching, desk, reading, announced, answered, recovered>>

\* The run of a stopped agent ends.
Report(a) == run[a] = "ended" /\ Reported(a)

-----------------------------------------------------------------------------
(* get_subagent_result.                                                    *)

\* With wait, for a queued or running agent.
Wait(a) ==
    /\ NewTurn
    /\ a \in Watched /\ run[a] = "live" /\ waiting[a] < MaxWaiters
    /\ waiting' = [waiting EXCEPT ![a] = @ + 1]
    /\ consumed' = [consumed EXCEPT ![a] = TRUE]
    /\ desk' = Cancel(desk, <<"agent", a>>)
    /\ UNCHANGED <<run, mode, batching, settled, announced, history>>

LastWaiter(a) == waiting[a] = 1

\* One wait gets the promise; its call then reads the terminal record.
WaitReturns(a) ==
    /\ waiting[a] > 0 /\ run[a] = "reported"
    /\ waiting' = [waiting EXCEPT ![a] = @ - 1]
    /\ settled' = IF LastWaiter(a) THEN settled \ {a} ELSE settled \cup {a}
    /\ consumed' = [consumed EXCEPT ![a] = TRUE]
    /\ desk' = Cancel(desk, <<"agent", a>>)
    /\ answered' = answered \cup {a}
    /\ UNCHANGED <<run, mode, batching, announced, lingered, recovered>>

\* Mutant: the last cancelled waiter restores the flag whoever got the result.
RestoresAlways(a) == LastWaiter(a)

\* The cancelled waiter is the last one and none of them got the result.
Restores(a) == LastWaiter(a) /\ a \notin settled

\* Mutant: only a live record is looked after when the last waiter leaves.
RecoversNever(a) == FALSE

\* isTerminal(record): the record ended while its waiters were being cancelled.
Recovers(a) == run[a] \in {"ended", "reported"}

\* The caller cancels one wait.
CancelWait(a) ==
    /\ waiting[a] > 0
    /\ waiting' = [waiting EXCEPT ![a] = @ - 1]
    /\ settled' = IF LastWaiter(a) THEN settled \ {a} ELSE settled
    /\ consumed' = [consumed EXCEPT ![a] = ~Restores(a)]
    /\ IF Restores(a) /\ Recovers(a)
       THEN desk' = PostIndividual(desk, a) /\ recovered' = recovered \cup {a}
       ELSE UNCHANGED <<desk, recovered>>
    /\ UNCHANGED <<run, mode, batching, announced, answered, lingered>>

\* Without wait, or for a terminal record.
Read(a) ==
    /\ NewTurn
    /\ run[a] \in {"ended", "reported"}
    /\ consumed' = [consumed EXCEPT ![a] = TRUE]
    /\ desk' = Cancel(desk, <<"agent", a>>)
    /\ answered' = answered \cup {a}
    /\ UNCHANGED <<run, mode, batching, waiting, settled, announced, lingered, recovered>>

-----------------------------------------------------------------------------
(* The timers.                                                             *)

\* The hold of a message is over: it is sent with the records still unread.
Send(m) ==
    /\ NewTurn /\ m \in desk.pending
    /\ desk' = [desk EXCEPT !.pending = @ \ {m}]
    /\ announced' = [a \in Agents |->
                        announced[a] + IF a \in m.recs /\ ~consumed[a] THEN 1 ELSE 0]
    /\ UNCHANGED <<run, mode, batching, reading, history>>

OnlyDesk == UNCHANGED <<run, mode, batching, reading, announced, history>>

GroupTimeout(b) ==
    LET g == desk.groups[b]
    IN  /\ NewTurn /\ g.timer
        /\ desk' = Post([desk EXCEPT !.groups[b] = GroupTimesOut(g)], <<"group", g.done>>, g.done)
        /\ OnlyDesk

\* The timer is started after a delivery and runs for many seconds: the hold
\* of that delivery's message and the rate window are over when it fires.
SwarmTimeout(b) ==
    LET s == desk.swarms[b]
        e == [desk EXCEPT !.swarms[b] = SwarmTimesOut(s)]
    IN  /\ NewTurn /\ s.timer /\ ~s.delivered /\ s.recent = 0
        /\ Held(desk, <<"swarm", b>>) = {}
        /\ desk' = IF TimeoutDelivers(s) THEN Post(e, <<"swarm", b>>, s.done) ELSE e
        /\ OnlyDesk

\* A second has passed since the swarm's last delivery.
WindowSlides(b) ==
    /\ NewTurn /\ desk.swarms[b].recent > 0
    /\ desk' = [desk EXCEPT !.swarms[b].recent = 0]
    /\ OnlyDesk

Orders == UNION {SetToSeqs(S) : S \in SUBSET Agents}

Next ==
    \/ \E a \in Agents : \/ \E m \in SingleModes : SpawnOne(a, m)
                         \/ Finish(a) \/ Stop(a) \/ Report(a)
                         \/ Wait(a) \/ WaitReturns(a) \/ CancelWait(a) \/ Read(a)
    \/ \E q \in Orders, m \in DispatchModes : Dispatch(q, m) \/ DispatchFails(q, m)
    \/ FinalizeBatch
    \/ \E m \in desk.pending : Send(m)
    \/ \E b \in Batches : GroupTimeout(b) \/ SwarmTimeout(b) \/ WindowSlides(b)

Spec == Init /\ [][Next]_vars

\* Timers fire, a settled promise resumes its waiters, and the run of a stopped
\* agent ends.
Fairness ==
    /\ \A a \in Agents : WF_vars(Report(a)) /\ WF_vars(WaitReturns(a))
    /\ WF_vars(FinalizeBatch)
    /\ WF_vars(\E m \in desk.pending : Send(m))
    /\ \A b \in Batches : /\ WF_vars(GroupTimeout(b))
                          /\ WF_vars(SwarmTimeout(b))
                          /\ WF_vars(WindowSlides(b))

FairSpec == Spec /\ Fairness

-----------------------------------------------------------------------------
(* Properties.                                                             *)

\* Every variable has its type; a key holds one message (NotificationHub.pending
\* is a map, schedule cancels before it sets) and nobody twice in the batch.
TypeOK ==
    /\ run \in [Agents -> Runs]
    /\ mode \in [Agents -> {"async", "smart", "group", "swarm"}]
    /\ batch \in Seq(Agents) /\ IsInjective(batch)
    /\ partial \in BOOLEAN /\ batches \in 0 .. MaxBatches
    /\ desk \in Desks /\ \A m \in desk.pending : Held(desk, m.key) = {m}
    /\ consumed \in [Agents -> BOOLEAN] /\ waiting \in [Agents -> 0 .. MaxWaiters]
    /\ announced \in [Agents -> Nat]
    /\ settled \subseteq Agents /\ \A a \in settled : waiting[a] > 0
    /\ answered \subseteq Agents /\ lingered \subseteq Agents /\ recovered \subseteq Agents

\* The places where a finished result waits for a message that will be sent.
OnItsWay(a) ==
    \/ a \in ToSet(batch)
    \/ \E m \in desk.pending : a \in m.recs
    \/ \E b \in Batches : a \in desk.groups[b].done
                       \/ a \in desk.swarms[b].done \ desk.swarms[b].sent

\* What onComplete, finalizeBatch, the coordinators and the hub hand to each
\* other is never dropped between them: a finished result nobody has read has
\* been announced or is on its way, except in two cases: a swarm that is delivered
\* already refuses it, or a message with the same key replaces the one that held it.
NothingForgotten ==
    \A a \in Agents \ (desk.refused \cup desk.overtaken) :
        run[a] = "reported" /\ ~consumed[a] /\ announced[a] = 0 => OnItsWay(a)

\* A result is announced at most once, whatever the order of its completion,
\* the end of its batch and the timeouts of its group; except for agents
\* stopped while they ran, for those whose waiters were all cancelled as they
\* ended, and for swarms, whose messages are cumulative.
AnnouncedOnce ==
    \A a \in Agents \ (lingered \cup recovered) : mode[a] # "swarm" => announced[a] <= 1

\* A result that get_subagent_result has returned is not announced afterwards,
\* whether it was in the batch, in a group or in a message then
\* (resultConsumed, checked by onComplete, finalizeBatch and at send time).
AnsweredIsQuiet ==
    [][\A a \in answered \ lingered : announced'[a] = announced[a]]_vars

\* A group or swarm that holds back results has its timer running and is
\* really waiting for a member: a timeout that removes members, a member read
\* early and a rate limit never leave results with nobody to deliver them.
HeldHasTimer ==
    \A b \in Batches :
        LET g == desk.groups[b]
            s == desk.swarms[b]
        IN  /\ g.open /\ g.done # {} => g.timer /\ g.members \ g.done # {}
            /\ s.open /\ s.done \ s.sent # {} => s.timer /\ s.agents \ s.done # {}

\* The result of an agent that has finished is announced or read in the end,
\* though members of its group never finish and waiters come and go.
ResultArrives ==
    \A a \in Agents :
        run[a] = "reported" ~> \/ announced[a] > 0 \/ consumed[a]
                               \/ a \in desk.refused \cup desk.overtaken
=============================================================================
