--------------------------- MODULE MCAgentDashboard ---------------------------
(* Small instances of AgentDashboard for TLC.                                *)
EXTENDS AgentDashboard

CONSTANTS a1, a2

\* a2 has ended before the dashboard is opened.
MCOld == <<a2>>
===============================================================================
