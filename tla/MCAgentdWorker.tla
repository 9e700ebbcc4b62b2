--------------------------- MODULE MCAgentdWorker ---------------------------
(* AgentdWorker for TLC: two processes of one agent and two jobs.          *)
EXTENDS AgentdWorker, TLC

\* The jobs of the same kind and the processes are interchangeable.
Symmetry == Permutations(Proc) \cup Permutations(Managed)
=============================================================================
