---------------------------- MODULE ExecutionGate ----------------------------
(***************************************************************************)
(* The execution server between the agent and the login server: the tools  *)
(* it offers are the rows of execution_commands at its start               *)
(* (registry.load_registered_sync), whether a tool may run is read from    *)
(* the row at the call (server._tool_state), the call is checked, run as   *)
(* the caller (RunAsUser) and written to job_logs (mcp_caller), while      *)
(* administrators edit the rows in the console (routers/execution.py).     *)
(* Each caller makes one call; titles are numbers in the order of ORDER BY.*)
(***************************************************************************)
EXTENDS RunAsUser, Sequences

CONSTANTS
    Titles,      \* the titles commands may have; also the base names of their commands
    MaxSuffix,   \* numbers tool_name_for tries before it takes the hash of the title (99)
    Hash,        \* title -> its name with the hash, a number above; two titles may have the same
    Ops,         \* callers that hold the role a command may require
    Anonymous,   \* callers without X-User-Id
    Admins,      \* administrators with a request open
    FirstRows,   \* contents of execution_commands when the server starts
    MaxTools,    \* execution_tools_max
    MaxEdits,    \* bound on the administrators' requests
    MaxRestarts  \* bound on the restarts of the server

Callers == Runs

ASSUME GateAssumption ==
    /\ Titles \subseteq Nat /\ Titles = Names
    /\ Ops \subseteq Callers /\ Anonymous \subseteq Callers
    /\ MaxSuffix \in Nat /\ Hash \in [Titles -> Nat] /\ \A t \in Titles : Hash[t] > MaxSuffix
    /\ MaxTools \in Nat /\ MaxEdits \in Nat /\ MaxRestarts \in Nat

VARIABLES
    rows,        \* execution_commands, by title
    offered,     \* REGISTERED, by tool name
    call,        \* the calls of the tools
    jobLogs,     \* job_logs, in the order of the inserts
    tasks,       \* _log_tasks: calls whose success row is still to be written
    lostRows,    \* history: calls whose row was lost with the process or refused by the database
    adm,         \* requests of administrators between their first query and their write
    edits, restarts,
    everOn       \* history: some state since the call arrived allowed it

admVars == <<rows, adm, edits>>
logVars == <<jobLogs, tasks, lostRows>>
vars == <<runVars, admVars, logVars, offered, call, restarts, everOn>>
-----------------------------------------------------------------------------
RunCommand == 0                                   \* the free tool, a reserved name
Tools      == 1..MaxSuffix \cup {Hash[t] : t \in Titles}

Row   == [tool : Tools, enabled : BOOLEAN, ops : BOOLEAN]
Offer == [title : Titles, ops : BOOLEAN]
Call  == [at : {"idle", "gate", "refusing", "handler", "running", "failing", "answered", "lost"},
          tool : Tools \cup {RunCommand},
          answer : {None, "blocked", "denied", "success", "error", "refused", "dberror"}]
NoCall == [at |-> "idle", tool |-> RunCommand, answer |-> None]
Request == [at : {"idle", "create", "excel"}, titles : SUBSET Titles, taken : SUBSET Tools]
NoRequest == [at |-> "idle", titles |-> {}, taken |-> {}]

TypeOK ==
    /\ RunTypeOK
    /\ rows \in [Titles -> Row \cup {None}]
    /\ offered \in [Tools -> Offer \cup {None}]
    /\ call \in [Callers -> Call]
    /\ jobLogs \in Seq(Callers \X {"blocked", "denied", "success", "error"})
    /\ tasks \subseteq Callers /\ lostRows \subseteq Callers
    /\ adm \in [Admins -> Request]
    /\ edits \in 0..MaxEdits /\ restarts \in 0..MaxRestarts
    /\ everOn \in [Callers -> BOOLEAN]

\* tool_name is UNIQUE
DistinctTools(f) ==
    \A t, u \in Titles : f[t] # None /\ f[u] # None /\ f[t].tool = f[u].tool => t = u

ASSUME RowsAssumption == \A f \in FirstRows : f \in [Titles -> Row \cup {None}] /\ DistinctTools(f)

Used    == {rows[t].tool : t \in {u \in Titles : rows[u] # None}}
RowOf(k) == CHOOSE t \in Titles : rows[t] # None /\ rows[t].tool = k

\* tool_name_for: titles here share their ASCII base, so a name is the base or the base with a
\* number; when all are taken it is the base with a hash of the title, taken or not
FreeName(taken, t) ==
    LET free == 1..MaxSuffix \ taken
    IN  IF free = {} THEN Hash[t] ELSE CHOOSE k \in free : \A m \in free : k <= m

\* load_registered_sync: the enabled rows, by title, up to the limit
Loaded ==
    LET on == {t \in Titles : rows[t] # None /\ rows[t].enabled}
        in == {t \in on : Cardinality({u \in on : u < t}) < MaxTools}
    IN  [k \in Tools |-> IF \E t \in in : rows[t].tool = k
                           THEN LET t == RowOf(k) IN [title |-> t, ops |-> rows[t].ops]
                           ELSE None]

Init ==
    /\ RunInit
    /\ rows \in FirstRows
    /\ offered = Loaded
    /\ call = [c \in Callers |-> NoCall]
    /\ jobLogs = <<>> /\ tasks = {} /\ lostRows = {}
    /\ adm = [a \in Admins |-> NoRequest]
    /\ edits = 0 /\ restarts = 0
    /\ everOn = [c \in Callers |-> FALSE]
-----------------------------------------------------------------------------
(***************************************************************************)
(* The wrapper of a tool (mcp_caller.build_wrapped)                        *)
(***************************************************************************)
\* _tool_state and the test of the roles
RoleOk(c, ops) == ops => c \in Ops
StateOf(k) ==
    CASE k = RunCommand -> [enabled |-> TRUE, ops |-> FALSE]
      [] k \in Used     -> [enabled |-> rows[RowOf(k)].enabled, ops |-> rows[RowOf(k)].ops]
      [] OTHER          -> [enabled |-> TRUE, ops |-> offered[k].ops]
StateAtStart(k) == [enabled |-> TRUE, ops |-> k # RunCommand /\ offered[k].ops]  \* mutant: the row is not read
ToolState(k) == StateOf(k)

Allowed(c) == call[c].at = "gate" /\ StateOf(call[c].tool).enabled
                                  /\ RoleOk(c, StateOf(call[c].tool).ops)

SetCall(c, l, a) == call' = [call EXCEPT ![c].at = l, ![c].answer = a]

Arrive(c) ==
    /\ call[c].at = "idle"
    /\ \E k \in {RunCommand} \cup {j \in Tools : offered[j] # None} :
         call' = [call EXCEPT ![c] = IF c \in Anonymous
                                       THEN [at |-> "refusing", tool |-> k, answer |-> "denied"]
                                       ELSE [at |-> "gate", tool |-> k, answer |-> None]]
    /\ UNCHANGED <<runVars, admVars, logVars, offered, restarts>>

Check(c) ==
    /\ call[c].at = "gate"
    /\ \/ LET s == ToolState(call[c].tool)
          IN  CASE ~s.enabled                      -> SetCall(c, "refusing", "blocked")
                [] s.enabled /\ ~RoleOk(c, s.ops) -> SetCall(c, "refusing", "denied")
                [] OTHER                           -> SetCall(c, "handler", None)
       \/ SetCall(c, "answered", "dberror")     \* the query fails: nothing runs, nothing is logged
    /\ UNCHANGED <<runVars, admVars, logVars, offered, restarts>>

\* the row of a refusal or an error is awaited; if the INSERT fails, its exception is the answer
Insert(c, status) == jobLogs' = Append(jobLogs, <<c, status>>) /\ UNCHANGED lostRows

LogThenAnswer(c) ==
    /\ call[c].at \in {"refusing", "failing"}
    /\ \/ Insert(c, call[c].answer) /\ SetCall(c, "answered", call[c].answer)
       \/ lostRows' = lostRows \cup {c} /\ SetCall(c, "answered", "dberror") /\ UNCHANGED jobLogs
    /\ UNCHANGED <<runVars, admVars, tasks, offered, restarts>>

AnswerThenLog(c) ==     \* mutant: a refusal is logged behind the answer too
    /\ call[c].at \in {"refusing", "failing"}
    /\ SetCall(c, "answered", call[c].answer) /\ tasks' = tasks \cup {c}
    /\ UNCHANGED <<runVars, admVars, jobLogs, lostRows, offered, restarts>>

LogRefusal(c) == LogThenAnswer(c)

\* the handler: argv, host and user, then the command
Handle(c) ==
    /\ call[c].at = "handler"
    /\ \E n \in (IF call[c].tool = RunCommand THEN Names ELSE {offered[call[c].tool].title}) :
         Launch(c, n)
    /\ SetCall(c, "running", None)
    /\ UNCHANGED <<admVars, logVars, offered, restarts>>

RunIt(c) ==
    /\ call[c].at = "running" /\ RunStep(c)
    /\ UNCHANGED <<admVars, logVars, offered, call, restarts>>

\* a result schedules its row (_log_later), a PermissionError passes without one, the rest is logged first
OnlyGood == {"done", "refused"}                            \* mutant: no clause for other exceptions
Ended    == {"done", "refused", "error", "timeout"}
LogLater(c) == tasks \cup {c}

Answer(c) ==
    /\ call[c].at = "running" /\ run[c].at \in Ended
    /\ CASE run[c].at = "done"    -> SetCall(c, "answered", "success") /\ tasks' = LogLater(c)
         [] run[c].at = "refused" -> SetCall(c, "answered", "refused") /\ UNCHANGED tasks
         [] OTHER                 -> SetCall(c, "failing", "error") /\ UNCHANGED tasks
    /\ UNCHANGED <<runVars, admVars, jobLogs, lostRows, offered, restarts>>

WriteLog(c) ==
    /\ c \in tasks /\ tasks' = tasks \ {c}
    /\ \/ Insert(c, call[c].answer)
       \/ lostRows' = lostRows \cup {c} /\ UNCHANGED jobLogs
    /\ UNCHANGED <<runVars, admVars, offered, call, restarts>>

\* the server stops with its calls and tasks, and starts over the rows as they are
Restart ==
    /\ restarts < MaxRestarts /\ restarts' = restarts + 1
    /\ offered' = Loaded
    /\ call' = [c \in Callers |-> IF call[c].at \in {"idle", "answered"} THEN call[c]
                                    ELSE [call[c] EXCEPT !.at = "lost"]]
    /\ RunRestart({c \in Callers : call[c].at \in {"answered", "running"}})
    /\ tasks' = {} /\ lostRows' = lostRows \cup tasks
    /\ UNCHANGED <<admVars, jobLogs>>
-----------------------------------------------------------------------------
(***************************************************************************)
(* The console (routers/execution.py)                                      *)
(***************************************************************************)
Edit(A) ==
    /\ edits < MaxEdits /\ edits' = edits + 1 /\ A
    /\ UNCHANGED <<runVars, logVars, offered, call, restarts>>

\* create_command and commit_excel read the names taken, then write
Open(a) ==
    /\ adm[a].at = "idle"
    /\ Edit(/\ \/ \E t \in Titles : adm' = [adm EXCEPT ![a] = [at |-> "create", titles |-> {t}, taken |-> Used]]
               \/ \E T \in SUBSET Titles \ {{}} :
                    adm' = [adm EXCEPT ![a] = [at |-> "excel", titles |-> T, taken |-> Used]]
            /\ UNCHANGED rows)

\* The titles are named one after the other, in the order of the file: a known title keeps its tool
\* name, a new one gets a name unless it is taken all the same (validate_definition; None)
Orders(T) == {o \in [T -> 1..Cardinality(T)] : \A t, u \in T : o[t] = o[u] => t = u}
Seen(q, order, name, t) ==
    q.taken \cup {name[u] : u \in {v \in q.titles : order[v] < order[t] /\ name[v] # None}}
NameOf(q, order, name, t) ==
    LET seen == Seen(q, order, name, t)
        k    == FreeName(seen, t)
    IN  IF rows[t] # None THEN rows[t].tool ELSE IF k \in seen THEN None ELSE k

\* one transaction: a title without a name is left out; create_command fails on a known title, and
\* a name somebody took meanwhile fails the whole write
Write(a) ==
    LET q == adm[a]
    IN  /\ q.at # "idle"
        /\ adm' = [adm EXCEPT ![a] = NoRequest]
        /\ \E order \in Orders(q.titles), name \in [q.titles -> Tools \cup {None}] :
             LET fails == \/ q.at = "create" /\ \E t \in q.titles : rows[t] # None
                          \/ \E t \in q.titles : rows[t] = None /\ name[t] \in Used
             IN  /\ \A t \in q.titles : name[t] = NameOf(q, order, name, t)
                 /\ \/ fails /\ UNCHANGED rows
                    \/ ~fails /\ \E e, o \in BOOLEAN :
                         rows' = [t \in Titles |-> IF t \in q.titles /\ name[t] # None
                                                     THEN [tool |-> name[t], enabled |-> e, ops |-> o]
                                                     ELSE rows[t]]
        /\ UNCHANGED <<runVars, logVars, offered, call, restarts, edits>>

\* toggle_command, update_command (which may also move the row to a title nobody has), delete_command
Toggle(t) == Edit(rows[t] # None /\ rows' = [rows EXCEPT ![t].enabled = ~@] /\ UNCHANGED adm)
Update(t, u) ==
    Edit(/\ rows[t] # None /\ (u = t \/ rows[u] = None) /\ UNCHANGED adm
         /\ \E e, o \in BOOLEAN :
              rows' = [[rows EXCEPT ![t] = None] EXCEPT ![u] =
                         [tool |-> rows[t].tool, enabled |-> e, ops |-> o]])
Delete(t) == Edit(rows[t] # None /\ rows' = [rows EXCEPT ![t] = None] /\ UNCHANGED adm)
-----------------------------------------------------------------------------
Step(c) == Arrive(c) \/ Check(c) \/ LogRefusal(c) \/ Handle(c) \/ RunIt(c) \/ Answer(c) \/ WriteLog(c)

Console == \/ \E a \in Admins : Open(a) \/ Write(a)
           \/ \E t \in Titles : Toggle(t) \/ Delete(t) \/ \E u \in Titles : Update(t, u)

History == everOn' = [c \in Callers |-> IF call[c].at \in {"idle", "gate"}
                                          THEN everOn[c] \/ Allowed(c)' ELSE everOn[c]]

Next == (\/ \E c \in Callers : Step(c)
         \/ Console
         \/ Restart) /\ History

\* every coroutine that can go on does; wait_for bounds an attempt, nothing bounds the administrators
Spec == Init /\ [][Next]_vars
Fairness == \A c \in Callers :
    WF_vars((Check(c) \/ LogRefusal(c) \/ Handle(c) \/ RunIt(c) \/ Answer(c) \/ WriteLog(c)) /\ History)
-----------------------------------------------------------------------------
\* Switching a command off, or taking a role away, needs no restart: a call never reaches the
\* server if no state since it arrived allowed it, although the tool is still offered
\* (toggle_command: "in effect at once"; _tool_state reads the row at every call).
OffMeansOff == \A c \in Callers : run[c].at # "idle" => everOn[c]

\* What the caller was told is on record: a refusal of the gate or an error before the answer, a
\* result by a task that still runs or has written it; only a restart or a refused INSERT loses
\* one, and no call is written twice (mcp_caller._log_later, build_wrapped).
EveryAnswerAccounted ==
    \A c \in Callers :
        LET written == {i \in 1..Len(jobLogs) : jobLogs[i][1] = c} IN
        /\ Cardinality(written) <= 1
        /\ call[c].at = "answered" =>
             CASE call[c].answer \in {"blocked", "denied", "error"} -> written # {}
               [] call[c].answer = "success" -> c \in tasks \cup lostRows \/ written # {}
               [] OTHER -> TRUE
        /\ \A i \in written : jobLogs[i][2] = call[c].answer

\* A call that passed the gate is answered and its row settled, or the process restarted, whatever
\* the command and the database do.
EveryCallSettles ==
    \A c \in Callers : (call[c].at = "gate") ~>
        (call[c].at = "lost" \/ (call[c].at = "answered" /\ c \notin tasks))

\* "Every execution is in the audit log" (README), taken at its word: also a call whose arguments
\* are refused by the handler.
EveryRefusalLogged ==
    \A c \in Callers : call[c].at = "answered" /\ call[c].answer = "refused"
        => \E i \in 1..Len(jobLogs) : jobLogs[i][1] = c
=============================================================================
