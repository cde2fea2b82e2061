--------------------------- MODULE MCExecutionGate ---------------------------
(* Instances of ExecutionGate for TLC. *)
EXTENDS ExecutionGate, TLC

CONSTANTS c1, c2, a1, a2

\* servers that differ in runuser and in where they find the commands 1 and 2
MCSites == {[runuser |-> FALSE, place |-> <<"profile", "path">>],
            [runuser |-> TRUE,  place |-> <<"profile", "nowhere">>]}

\* a command for everybody and one for a role, which may be switched off
MCRows == {<<[tool |-> 1, enabled |-> TRUE, ops |-> FALSE], [tool |-> 2, enabled |-> FALSE, ops |-> TRUE]>>}

\* after the base name both titles have the same name with a hash
MCHash == <<2, 2>>

\* administrators and a second call at once multiply the states without a property that needs both
MCNext == Next /\ (edits' = 0 \/ call'[c2].at = "idle")
MCSpec == Init /\ [][MCNext]_vars /\ Fairness
=============================================================================
