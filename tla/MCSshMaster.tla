----------------------------- MODULE MCSshMaster -----------------------------
(* Instances of SshMaster for TLC. *)
EXTENDS SshMaster

CONSTANTS h1, h2, s, w1, k1, k2, k3

\* execution_host may be changed once, while the supervisor is alone: no /warm, no master of a command
Alone == (\A c \in Callers \ {Supervisor} : ~Active(c)) /\ (\A p \in Pids : Runs(p) => proc[p].ours)

\* A behaviour out of calm is out of it in one way, by an overlap or by a removed socket, until
\* the next restart: the properties say nothing of it.
OneWay == apart \/ ~severed

MCInit == Init /\ host = h1
MCNext == Next /\ (host' = h1 \/ Alone') /\ OneWay'
MCSpec == MCInit /\ [][MCNext]_vars /\ Fairness
=============================================================================
