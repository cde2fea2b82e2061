------------------------------ MODULE MCStartup ------------------------------
EXTENDS Startup

CONSTANTS p1, p2, t1, t2, t3, k1, k2

\* all titles have the same name with a hash
MCHash == [t \in Titles |-> 2]

(***************************************************************************)
(* Which changes are combined: administrators change commands in the first *)
(* release, of the titles t1 and t2, settings first and while no db-init   *)
(* runs, and the environment changes in the last release.  The two titles  *)
(* of the catalog come in the order of their names and have one base: the  *)
(* first of them or a custom command.                                      *)
(***************************************************************************)
MCInit  == Init /\ base[t3] = base[t1] /\ base[t1] # t3
InOrder == \A p \in Inits : init[p].at = "import" /\ t1 \notin init[p].titles
               => init'[p].titles \subseteq init[p].titles \cup {t1}
MCConsole == \/ release = 1 /\ \E t \in Titles \ {t3} : CreateCommand(t) \/ UpdateCommand(t) \/ DeleteCommand(t)
             \/ Idle /\ edits = 0 /\ \E k \in Keys : SetConfig(k)
MCNext == \/ \E p \in Inits : Start(p) \/ Step(p) \/ Crash(p)
          \/ Upgrade /\ (env' # env => release = MaxRelease)
          \/ MCConsole
MCSpec     == MCInit /\ [][MCNext /\ InOrder]_vars
MCFairSpec == MCSpec /\ Fairness
=============================================================================
