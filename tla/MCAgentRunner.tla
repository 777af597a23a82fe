---------------------------- MODULE MCAgentRunner ----------------------------
(* Small instances of AgentRunner for TLC.                                  *)
EXTENDS AgentRunner, TLC

CONSTANTS configured, parent, spare

Kind(model, pinned, freeOnly, hooks, validators, level) ==
    [model |-> model, pinned |-> pinned, freeOnly |-> freeOnly, hooks |-> hooks,
     validators |-> validators, level |-> level]

\* The registry has a spare model besides the configured one and the parent's.
MCModels == {configured, parent, spare}

MCKinds == {Kind(configured, FALSE, FALSE, TRUE, FALSE, 0),
            Kind(configured, TRUE, TRUE, FALSE, TRUE, 0),
            Kind(parent, TRUE, FALSE, TRUE, TRUE, 0),
            Kind(configured, FALSE, FALSE, FALSE, FALSE, 1)}
=============================================================================
