--------------------------- MODULE MCAgentTransport ---------------------------
(* Two acpx runs of one session, and a codex run. *)
EXTENDS AgentTransport

CONSTANTS a1, a2, c1, s1

MCSessionOf == [r \in Acpx |-> s1]
===============================================================================
