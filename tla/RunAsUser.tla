------------------------------ MODULE RunAsUser ------------------------------
(***************************************************************************)
(* run_ssh_as_user (src/shared/ssh_exec.py): a command runs on the login   *)
(* server as the caller, through runuser, su or a login shell; when the    *)
(* cheap way does not find it, the next one is tried, and what was learnt  *)
(* (_NEEDS_LOGIN_SHELL, _privdrop_downgrade) serves every later command of *)
(* the process.  Several commands run at once and learn from each other.   *)
(*                                                                         *)
(* The server is external: whether it has runuser, where it finds each     *)
(* command, what the command answers and says on stderr.                   *)
(***************************************************************************)
EXTENDS Naturals, FiniteSets

CONSTANTS
    Runs,       \* calls of run_ssh_as_user
    Names,      \* base names of argv[0]
    Sites,      \* login servers: [runuser : BOOLEAN, place : [Names -> Places]]
    Privdrop,   \* SSH_PRIVDROP
    None

Modes   == {"runuser", "su", "su-login"}
Places  == {"path", "profile", "nowhere"}   \* found by any shell, by a login shell only, not at all

ASSUME RunAssumption ==
    /\ Privdrop \in Modes
    /\ Sites \subseteq [runuser : BOOLEAN, place : [Names -> Places]]

VARIABLES
    site,       \* the login server
    downgrade,  \* _privdrop_downgrade
    needs,      \* _NEEDS_LOGIN_SHELL
    run         \* the local variables of each call

runVars == <<site, downgrade, needs, run>>
-----------------------------------------------------------------------------
\* code: the exit code; notfound: stderr holds one of _NOT_FOUND_MARKERS; says: names stderr holds
Codes   == {0, 1, 126, 127, 255}
Outcome == [code : Codes, notfound : BOOLEAN, says : SUBSET (Names \cup {"runuser"})]

\* known: the name was known to need a login shell when the call began
\* effects, odd: history, how often the command itself ran, and whether it said "not found" itself
RunStages == {"idle", "attempt", "done", "timeout", "refused", "error"}
RunRec == [at : RunStages, name : Names \cup {None}, mode : Modes \cup {None}, tries : 0..3,
           effects : 0..3, odd : BOOLEAN, known : BOOLEAN, code : Codes \cup {None}]

NoRun == [at |-> "idle", name |-> None, mode |-> None, tries |-> 0, effects |-> 0,
          odd |-> FALSE, known |-> FALSE, code |-> None]

RunTypeOK ==
    /\ site \in Sites
    /\ downgrade \in {None, "su"}
    /\ needs \subseteq Names
    /\ run \in [Runs -> RunRec]

RunInit ==
    /\ site \in Sites
    /\ downgrade = None
    /\ needs = {}
    /\ run = [r \in Runs |-> NoRun]
-----------------------------------------------------------------------------
BaseMode == IF downgrade # None THEN downgrade ELSE Privdrop

\* _effective_privdrop
EffMode(n)   == IF n \in needs THEN "su-login" ELSE BaseMode

\* the argv is built, the host resolved, the user checked; what fails here runs nothing and is
\* a PermissionError (refused) or another exception (error); else the first attempt starts
Launch(r, n) ==
    /\ run[r].at = "idle"
    /\ \/ run' = [run EXCEPT ![r] = [NoRun EXCEPT !.at = "attempt", !.name = n, !.tries = 1,
                                                  !.mode = EffMode(n), !.known = n \in needs]]
       \/ \E e \in {"refused", "error"} : run' = [run EXCEPT ![r].at = e, ![r].name = n]
    /\ UNCHANGED <<site, downgrade, needs>>

\* does the server find the command in this mode?
Found(n, m) ==
    \/ site.place[n] = "path" /\ (m = "runuser" => site.runuser)
    \/ site.place[n] = "profile" /\ m = "su-login"

\* what an attempt may answer.  A command that is found ends well, ends with an error of its own
\* that may read like a missing file, or itself ends with 126 or 127
Outcomes(n, m) ==
    {[code |-> 255, notfound |-> FALSE, says |-> {}]} \cup
    IF Found(n, m)
      THEN {[code |-> 0, notfound |-> FALSE, says |-> {}]} \cup
           {[code |-> k, notfound |-> TRUE, says |-> {n}] : k \in {1, 127}}
      ELSE {[code |-> 127, notfound |-> TRUE,
             says |-> CASE m # "runuser" -> {n}
                        [] m = "runuser" /\ site.runuser -> {"runuser", n}     \* "runuser: failed to execute <n>: ..."
                        [] OTHER -> {"runuser"}]}

\* the two recoveries of the loop; the rest of the conditions leave it
OnAnyError(r, o) == run[r].mode # "su-login" /\ o.code # 0 /\ run[r].tries < 3   \* mutant: the exit code is not compared
MayRetry(r, o)   == run[r].mode # "su-login" /\ o.code \in {126, 127} /\ run[r].tries < 3
NoRunuser(r, o)  == run[r].mode = "runuser" /\ "runuser" \in o.says /\ o.notfound
Missing(r, o)    == o.notfound /\ run[r].name \in o.says

RetryOnce(r, o) == MayRetry(r, o) /\ (NoRunuser(r, o) \/ Missing(r, o)) /\ run[r].tries < 2   \* mutant: range(1)
Retries(r, o)   == MayRetry(r, o) /\ (NoRunuser(r, o) \/ Missing(r, o))

NextMode(r, o) == IF NoRunuser(r, o) /\ run[r].name \notin needs THEN "su" ELSE "su-login"

\* an attempt ends: what it taught is stored and the next one starts before anything else runs
Attempt(r) ==
    /\ run[r].at = "attempt"
    /\ LET n == run[r].name
           ran == Found(n, run[r].mode)
       IN  \E o \in Outcomes(n, run[r].mode) :
             LET done == [run[r] EXCEPT !.effects = @ + (IF ran /\ o.code # 255 THEN 1 ELSE 0),
                                        !.odd = @ \/ (ran /\ o.code = 127), !.code = o.code]
             IN  /\ downgrade' = IF Retries(r, o) /\ NoRunuser(r, o) THEN "su" ELSE downgrade
                 /\ needs' = IF Retries(r, o) /\ ~NoRunuser(r, o) THEN needs \cup {n} ELSE needs
                 /\ run' = [run EXCEPT ![r] =
                              IF Retries(r, o)
                                THEN [done EXCEPT !.mode = NextMode(r, o), !.tries = @ + 1]
                                ELSE [done EXCEPT !.at = "done"]]
    /\ UNCHANGED site

\* wait_for gives up: the ssh client is killed, the command may have run or still run
TimesOut(r) ==
    /\ run[r].at = "attempt"
    /\ \E e \in (IF Found(run[r].name, run[r].mode) THEN {0, 1} ELSE {0}) :
         run' = [run EXCEPT ![r].at = "timeout", ![r].effects = @ + e]
    /\ UNCHANGED <<site, downgrade, needs>>

RunStep(r) == Attempt(r) \/ TimesOut(r)

RunRestart(keep) ==     \* the process forgets what it learnt and the calls it was in
    /\ downgrade' = None /\ needs' = {}
    /\ run' = [r \in Runs |-> IF r \in keep THEN run[r] ELSE NoRun]
    /\ UNCHANGED site
-----------------------------------------------------------------------------
\* A command has its effect at most once per call unless it itself ends with 126 or 127 and a
\* text that reads like its own name not being found: an ordinary failure, a failed connection
\* or a time-out is never a reason to run it again (the loop of run_ssh_as_user).
RepeatOnlyAfterNotFound == \A r \in Runs : run[r].effects > 1 => run[r].odd

\* "What if it does not work" is no question: a call that ended was not left with "not found" if
\* a login shell of the server finds the command, whatever the other calls changed meanwhile, and
\* a name known to need a login shell is not tried in vain again (the loop of run_ssh_as_user
\* reaches the login shell from any mode; _NEEDS_LOGIN_SHELL: "it does not run twice").
FallbackFinds ==
    \A r \in Runs :
        /\ run[r].at = "done" /\ run[r].code = 127 /\ site.place[run[r].name] # "nowhere"
             => run[r].effects > 0
        /\ run[r].known => run[r].tries = 1

\* The mode of the whole process is lowered only if the server has no runuser.
LoweredWithReason == downgrade # None => ~site.runuser
=============================================================================
