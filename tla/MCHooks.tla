------------------------------ MODULE MCHooks ------------------------------
(* Four handlers, two of them of one priority.                             *)
EXTENDS Hooks

CONSTANTS h1, h2, h3, h4, d1

MCPriority == [h \in Handlers |-> IF h = h1 THEN 0 ELSE IF h = h4 THEN 100 ELSE 50]
=============================================================================
