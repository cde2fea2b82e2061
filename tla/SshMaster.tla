------------------------------ MODULE SshMaster ------------------------------
(***************************************************************************)
(* The resident ssh master of the execution server                         *)
(* (src/shared/ssh_exec.py): one `ssh -M -N' child per login server holds  *)
(* the control socket that every command shares.  ensure_master is called  *)
(* at start-up, by the supervisor and by GET /warm, and its calls overlap  *)
(* at every await; a command that finds no socket connects by itself and   *)
(* leaves a master of its own behind (ControlPersist).                     *)
(*                                                                         *)
(* ssh is external: a master binds the socket path if there is no file,    *)
(* and runs on without a socket, or exits, if there is one; when it exits  *)
(* it removes the file it bound, when it is killed the file stays.         *)
(***************************************************************************)
EXTENDS Naturals, FiniteSets

CONSTANTS
    Ips,        \* addresses execution_host may resolve to
    Pids,       \* ssh processes alive or remembered at the same time
    Callers,    \* concurrent calls of ensure_master
    Supervisor, \* the caller that is the start-up and then the supervisor
    MaxFails,   \* bound on the failures in a row the supervisor counts
    MaxFaults,  \* bound on connections lost, processes killed, restarts and changes of execution_host
    Stale,      \* a socket file nobody listens on
    None

ASSUME MasterAssumption ==
    /\ Supervisor \in Callers
    /\ MaxFails \in Nat /\ MaxFaults \in Nat
    /\ Stale \notin Pids /\ None \notin Pids \cup Ips /\ Stale # None

VARIABLES
    proc,       \* the ssh processes
    sock,       \* the file at control_path(ip)
    masters,    \* _master_procs
    call,       \* the local variables of each call of ensure_master
    host,       \* execution_host
    fails,      \* failures in a row, as the supervisor counts
    faults,     \* faults so far
    apart,      \* history variable: since the start no call has overlapped another or a
                \* command that connects
    severed     \* history variable: since the start a socket somebody listened on was removed,
                \* because `ssh -O check' had not answered in time

os   == <<proc, sock>>
past == <<apart, severed>>
vars == <<os, masters, call, host, fails, faults, past>>
-----------------------------------------------------------------------------
\* "conn": not connected yet; ours: a child of this process, else a command's master
Proc     == [st : {"free", "conn", "up"}, ip : Ips \cup {None}, ours : BOOLEAN, bound : BOOLEAN]
FreeProc == [st |-> "free", ip |-> None, ours |-> FALSE, bound |-> FALSE]

CallRec  == [at : {"idle", "check", "spawn", "wait", "store", "ok", "failed"},
             ip : Ips \cup {None}, pid : Pids \cup {None}]
IdleCall == [at |-> "idle", ip |-> None, pid |-> None]

TypeOK ==
    /\ proc \in [Pids -> Proc]
    /\ sock \in [Ips -> Pids \cup {None, Stale}]
    /\ masters \in [Ips -> Pids \cup {None}]
    /\ call \in [Callers -> CallRec]
    /\ host \in Ips
    /\ fails \in 0..MaxFails /\ faults \in 0..MaxFaults
    /\ apart \in BOOLEAN /\ severed \in BOOLEAN

Init ==
    /\ proc = [p \in Pids |-> FreeProc]
    /\ sock = [i \in Ips |-> None]
    /\ masters = [i \in Ips |-> None]
    /\ call = [c \in Callers |-> IdleCall]
    /\ host \in Ips
    /\ fails = 0 /\ faults = 0
    /\ apart = TRUE /\ severed = FALSE
-----------------------------------------------------------------------------
Runs(p)   == proc[p].st \in {"conn", "up"}       \* returncode is None
File(i)   == sock[i] # None                      \* master_socket_exists
Usable(i) == sock[i] \in Pids                    \* ssh -O check: a listener answers

Active(c)  == call[c].at \notin {"idle", "ok", "failed"}
Others(c)  == \E d \in Callers \ {c} : Active(d)
Connecting == \E p \in Pids : proc[p].st = "conn" /\ ~proc[p].ours

Unused(p) ==
    /\ ~Runs(p)
    /\ \A i \in Ips : masters[i] # p
    /\ \A c \in Callers : call[c].pid # p

Goto(c, l) == call' = [call EXCEPT ![c].at = l]

\* how the processes in P end: those that bound the socket remove the file unless they are killed
Exit(P, killed) ==
    /\ proc' = [p \in Pids |-> IF p \in P THEN FreeProc ELSE proc[p]]
    /\ sock' = [i \in Ips |->
                  IF ~killed /\ (\E p \in P : proc[p].ip = i /\ proc[p].bound) THEN None
                  ELSE IF sock[i] \in P THEN Stale ELSE sock[i]]

(***************************************************************************)
(* ensure_master                                                           *)
(***************************************************************************)
AnyProc(i) == masters[i] # None /\ File(i)        \* mutant: returncode is not looked at
LooksUp(i) == masters[i] # None /\ Runs(masters[i]) /\ File(i)

\* the first check, without an await, also made by the supervisor itself
Begin(c) ==
    /\ call[c].at = "idle"
    /\ IF LooksUp(host)
         THEN c # Supervisor /\ call' = [call EXCEPT ![c].at = "ok"] /\ UNCHANGED masters
         ELSE /\ call' = [call EXCEPT ![c] = [at |-> "check", ip |-> host, pid |-> None]]
              /\ masters' = [masters EXCEPT ![host] =
                                IF @ # None /\ ~Runs(@) THEN None ELSE @]
    /\ apart' = (apart /\ ~Others(c) /\ ~Connecting)
    /\ UNCHANGED <<os, host, fails, faults, severed>>

\* master_alive; a check that runs into its timeout counts as no, whoever listens
CheckAlive(c) ==
    /\ call[c].at = "check"
    /\ \/ Usable(call[c].ip) /\ Goto(c, "ok")
       \/ Goto(c, "spawn")
    /\ UNCHANGED <<os, masters, host, fails, faults, past>>

KeepFile(i) == sock[i]                            \* mutant: the file is not removed
Unlinked(i) == None

Spawn(c) ==
    /\ call[c].at = "spawn"
    /\ LET i == call[c].ip IN
         /\ sock' = [sock EXCEPT ![i] = Unlinked(i)]
         /\ \E p \in Pids :
               /\ Unused(p)
               /\ proc' = [proc EXCEPT ![p] = [st |-> "conn", ip |-> i, ours |-> TRUE, bound |-> FALSE]]
               /\ call' = [call EXCEPT ![c].at = "wait", ![c].pid = p]
         /\ severed' = (severed \/ Usable(i))
    /\ UNCHANGED <<masters, host, fails, faults, apart>>

\* create_subprocess_exec raises OSError
SpawnFails(c) ==
    /\ call[c].at = "spawn"
    /\ sock' = [sock EXCEPT ![call[c].ip] = Unlinked(call[c].ip)]
    /\ Goto(c, "failed")
    /\ severed' = (severed \/ Usable(call[c].ip))
    /\ UNCHANGED <<proc, masters, host, fails, faults, apart>>

\* the polling loop: the child has exited, or the socket answers
ChildGone(c) ==
    /\ call[c].at = "wait" /\ ~Runs(call[c].pid)
    /\ Goto(c, "failed")
    /\ UNCHANGED <<os, masters, host, fails, faults, past>>

Answers(c) ==
    /\ call[c].at = "wait" /\ Runs(call[c].pid) /\ Usable(call[c].ip)
    /\ Goto(c, "store")
    /\ UNCHANGED <<os, masters, host, fails, faults, past>>

Store(c) ==
    /\ call[c].at = "store"
    /\ masters' = [masters EXCEPT ![call[c].ip] = call[c].pid]
    /\ Goto(c, "ok")
    /\ UNCHANGED <<os, host, fails, faults, past>>

LeftRunning(p) == UNCHANGED os                    \* mutant: proc.kill() forgotten
Killed(p) == IF Runs(p) THEN Exit({p}, TRUE) ELSE UNCHANGED os

Deadline(c) ==
    /\ call[c].at = "wait"
    /\ Killed(call[c].pid)
    /\ Goto(c, "failed")
    /\ UNCHANGED <<masters, host, fails, faults, past>>

(***************************************************************************)
(* The callers: /warm gives the result back; the supervisor counts, sleeps *)
(* up to five minutes and looks again.                                     *)
(***************************************************************************)
Return(c) ==
    /\ call[c].at \in {"ok", "failed"}
    /\ call' = [call EXCEPT ![c] = IdleCall]
    /\ fails' = IF c # Supervisor THEN fails
                ELSE IF call[c].at = "ok" THEN 0
                ELSE IF fails < MaxFails THEN fails + 1 ELSE fails
    /\ UNCHANGED <<os, masters, host, faults, past>>

SetHost ==
    /\ faults < MaxFaults /\ faults' = faults + 1
    /\ \E i \in Ips \ {host} : host' = i
    /\ UNCHANGED <<os, masters, call, fails, past>>

\* stop_masters at the end of the service and the new start of its container
StopAndRestart ==
    /\ faults < MaxFaults /\ faults' = faults + 1
    /\ LET stopped == {p \in Pids : Runs(p) /\ \E i \in Ips : masters[i] = p} IN
         sock' = [i \in Ips |-> CASE sock[i] \in stopped -> None
                                  [] sock[i] = None      -> None
                                  [] OTHER               -> Stale]
    /\ proc' = [p \in Pids |-> FreeProc]
    /\ masters' = [i \in Ips |-> None]
    /\ call' = [c \in Callers |-> IdleCall]
    /\ fails' = 0
    /\ apart' = TRUE /\ severed' = FALSE
    /\ UNCHANGED host

(***************************************************************************)
(* ssh, the network and the commands                                       *)
(***************************************************************************)
Connected(p) ==
    /\ proc[p].st = "conn"
    /\ LET i == proc[p].ip IN
         IF File(i)
           THEN /\ proc' = [proc EXCEPT ![p] = IF @.ours THEN [@ EXCEPT !.st = "up"] ELSE FreeProc]
                /\ UNCHANGED sock
           ELSE /\ proc' = [proc EXCEPT ![p].st = "up", ![p].bound = TRUE]
                /\ sock' = [sock EXCEPT ![i] = p]
    /\ UNCHANGED <<masters, call, host, fails, faults, past>>

\* refused, or "already exists"
Refused(p) ==
    /\ proc[p].st = "conn"
    /\ Exit({p}, TRUE)
    /\ UNCHANGED <<masters, call, host, fails, faults, past>>

\* keepalive closes a dead connection; the kernel kills a process
Lost(p) ==
    /\ faults < MaxFaults /\ faults' = faults + 1
    /\ proc[p].st = "up"
    /\ \E killed \in BOOLEAN : Exit({p}, killed)
    /\ UNCHANGED <<masters, call, host, fails, past>>

\* a command with ControlMaster=auto finds no listener
CommandConnects ==
    /\ ~Usable(host)
    /\ ~Connecting
    /\ sock' = [sock EXCEPT ![host] = None]
    /\ \E p \in Pids :
          /\ Unused(p)
          /\ proc' = [proc EXCEPT ![p] = [st |-> "conn", ip |-> host, ours |-> FALSE, bound |-> FALSE]]
    /\ apart' = (apart /\ \A c \in Callers : ~Active(c))
    /\ UNCHANGED <<masters, call, host, fails, faults, severed>>

\* ControlPersist runs out
Expires(p) ==
    /\ proc[p].st = "up" /\ ~proc[p].ours
    /\ Exit({p}, FALSE)
    /\ UNCHANGED <<masters, call, host, fails, faults, past>>
-----------------------------------------------------------------------------
Step(c) ==
    \/ Begin(c) \/ CheckAlive(c) \/ Spawn(c) \/ SpawnFails(c) \/ ChildGone(c)
    \/ Answers(c) \/ Store(c) \/ Deadline(c) \/ Return(c)

Next ==
    \/ \E c \in Callers : Step(c)
    \/ \E p \in Pids : Connected(p) \/ Refused(p) \/ Lost(p) \/ Expires(p)
    \/ SetHost \/ StopAndRestart \/ CommandConnects

Spec == Init /\ [][Next]_vars

\* The supervisor never stops looking, and a server that is tried again and again is
\* reached within the deadline some time.
Fairness ==
    /\ WF_vars(Step(Supervisor))
    /\ SF_vars(Spawn(Supervisor))
    /\ SF_vars(\E p \in Pids : proc[p].ours /\ Connected(p))
    /\ SF_vars(Answers(Supervisor))

FairSpec == Spec /\ Fairness
-----------------------------------------------------------------------------
(***************************************************************************)
(* Properties                                                              *)
(***************************************************************************)

Masters(i) == {p \in Pids : Runs(p) /\ proc[p].ours /\ proc[p].ip = i}

\* Since the service started no calls have overlapped, and no check of a socket that was in
\* use ran into its timeout and had the socket removed.
Calm == apart /\ ~severed

\* In calm there is one master of ours per server, whatever connection was lost, process
\* killed or attempt refused or given up before (ensure_master, the kill after the deadline).
CalmOneMaster == Calm => \A i \in Ips : Cardinality(Masters(i)) <= 1

\* In calm the cheap look at process and file means a listening socket, so the supervisor
\* does not overlook a dead connection (ensure_master).
CalmLooksUpIsUp == Calm => \A i \in Ips : LooksUp(i) => Usable(i)

\* A connection that is lost is opened again in calm: stale files, dead children and failed
\* attempts do not stop the supervisor (start_master_supervisor).
Recovers == (Calm /\ ~Usable(host)) ~> (Usable(host) \/ ~Calm)

\* There is one master of ours per server.
OneMaster == \A i \in Ips : Cardinality(Masters(i)) <= 1

\* Whenever process and file are there, the socket is usable.
LooksUpIsUp == \A i \in Ips : LooksUp(i) => Usable(i)

\* The same two as long as calls do not overlap, timed-out checks included (master_alive
\* answers no after five seconds, ensure_master removes the file).
ApartOneMaster   == apart => OneMaster
ApartLooksUpIsUp == apart => LooksUpIsUp
=============================================================================
