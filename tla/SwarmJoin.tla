------------------------------ MODULE SwarmJoin ------------------------------
(***************************************************************************)
(* One swarm of SwarmCoordinator (src/swarm-join.ts) with the strategy the *)
(* extension uses, "live": every completion is delivered at once, with all *)
(* results of the current wave, once a quorum has completed and unless too *)
(* much was delivered in the last second; a timer delivers what is left    *)
(* and starts the next wave.                                               *)
(*                                                                         *)
(* disposeSwarm five seconds after the final delivery is left out: it      *)
(* removes what a delivered swarm no longer looks at.                      *)
(***************************************************************************)
EXTENDS Naturals, FiniteSets

\* open: in this.swarms.            agents, tracked: swarm.agents, agentToSwarm.
\* done: completedRecords.          sent: deliveredRecordIds.
\* delivered: the final delivery.   timer: timeoutHandle is set.
\* recent: how many deliveryTimestamps are less than a second old.
SwarmState(Ids) ==
    [open : BOOLEAN, agents : SUBSET Ids, tracked : SUBSET Ids, done : SUBSET Ids,
     sent : SUBSET Ids, delivered : BOOLEAN, timer : BOOLEAN, recent : Nat]

NoSwarm == [open |-> FALSE, agents |-> {}, tracked |-> {}, done |-> {}, sent |-> {},
            delivered |-> FALSE, timer |-> FALSE, recent |-> 0]

CreateSwarm == [NoSwarm EXCEPT !.open = TRUE]

\* addAgentToSwarm refuses when the swarm has made its final delivery.
AddToSwarm(s, a) ==
    IF s.delivered THEN s ELSE [s EXCEPT !.agents = @ \cup {a}, !.tracked = @ \cup {a}]

\* onAgentComplete does not answer "pass".
SwarmTakes(s, a) ==
    s.open /\ ~s.delivered /\ a \in s.tracked \cap s.agents /\ a \notin s.done

\* computeQuorumRequired: half of the agents, rounded up.
QuorumRequired(s) == (Cardinality(s.agents) + 1) \div 2

SwarmFull(s, a) == Cardinality(s.done \cup {a}) >= Cardinality(s.agents)

\* Whether the completion of a is delivered now.
SwarmDelivers(s, a, rateLimit) ==
    \/ SwarmFull(s, a)
    \/ Cardinality(s.done \cup {a}) >= QuorumRequired(s) /\ s.recent < rateLimit

\* deliverBatch with the results R of the wave.
DeliverBatch(s, R, partial) ==
    [s EXCEPT !.done = R, !.sent = @ \cup R, !.recent = @ + 1, !.timer = FALSE,
              !.delivered = @ \/ ~partial]

\* Mutant: a completion above the rate is dropped without a timer.
SwarmDropsAboveRate(s, a, rateLimit) ==
    IF SwarmFull(s, a) THEN DeliverBatch(s, s.done \cup {a}, FALSE)
    ELSE IF SwarmDelivers(s, a, rateLimit)
         THEN [DeliverBatch(s, s.done \cup {a}, TRUE) EXCEPT !.timer = TRUE]
         ELSE [s EXCEPT !.done = @ \cup {a}]

\* The swarm after the completion; the timer is started whenever it is not
\* running and the swarm goes on.
SwarmAfter(s, a, rateLimit) ==
    IF SwarmFull(s, a) THEN DeliverBatch(s, s.done \cup {a}, FALSE)
    ELSE IF SwarmDelivers(s, a, rateLimit)
         THEN [DeliverBatch(s, s.done \cup {a}, TRUE) EXCEPT !.timer = TRUE]
         ELSE [s EXCEPT !.done = @ \cup {a}, !.timer = TRUE]

\* onTimeout delivers only if something of the wave was not delivered yet ...
TimeoutDelivers(s) == s.done \ s.sent # {}

\* ... and the agents that have not completed form the next wave.
SwarmTimesOut(s) ==
    LET remaining == s.agents \ s.done
    IN  [s EXCEPT !.open = remaining # {}, !.agents = remaining, !.tracked = remaining,
                  !.done = {}, !.sent = {}, !.timer = FALSE,
                  !.recent = IF TimeoutDelivers(s) THEN @ + 1 ELSE @]
=============================================================================
