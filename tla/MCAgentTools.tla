---------------------------- MODULE MCAgentTools ----------------------------
(* A small instance of AgentTools for TLC: two tools that only read, one   *)
(* that writes, two of context mode and two of extensions.                 *)
EXTENDS AgentTools

CONSTANTS a1, a2, t1, t2, read, grep, write, c1, c2, x, y, e, f

MCMatched == [n \in {e, f} |-> IF n = e THEN {y} ELSE {x, y}]

Base == [enabled |-> TRUE, tools |-> Unset, denied |-> {}, exts |-> Every, ctx |-> FALSE, memory |-> FALSE]

\* The embedded types: the general one, Explore and Plan, and Analysis, the only
\* one with context mode.  Then what files can give: a disabled type with memory,
\* memory with and without a tool that writes, lists with "*" and with the names
\* of context-mode and extension tools, and an empty list.
MCConfigs ==
    {Base,
     [Base EXCEPT !.tools = ReadOnly, !.denied = Writing, !.exts = NoneAtAll],
     [Base EXCEPT !.tools = ReadOnly, !.denied = Writing, !.exts = NoneAtAll, !.ctx = TRUE],
     [Base EXCEPT !.enabled = FALSE, !.memory = TRUE],
     [Base EXCEPT !.memory = TRUE, !.denied = Writing],
     [Base EXCEPT !.tools = ReadOnly, !.memory = TRUE, !.exts = {e}],
     [Base EXCEPT !.tools = {Star, c1, x}, !.memory = TRUE, !.denied = {c1}, !.exts = {e, f}],
     [Base EXCEPT !.tools = {grep, write, c1}, !.memory = TRUE, !.exts = {f}],
     [Base EXCEPT !.tools = {}, !.memory = TRUE]}
=============================================================================
