------------------------ MODULE ExecutionGate_proofs ------------------------
(***************************************************************************)
(* Proofs about the execution server (ExecutionGate, RunAsUser).  The      *)
(* inductive invariant has a part for each question: Attempts says what a  *)
(* command has tried and done so far, Passed why a call may be past the    *)
(* gate, Offers that a call at work is about a tool on offer, Logs what    *)
(* job_logs and its tasks hold of a call, and Distinct that a name belongs *)
(* to one row.                                                             *)
(***************************************************************************)
EXTENDS ExecutionGate, TLAPS, FiniteSetTheorems, WellFoundedInduction

\* of a call of run_ssh_as_user that is about to try again
Trying(q) ==
    /\ q.name \in Names /\ q.mode \in Modes /\ q.tries \in 1..3
    /\ q.effects < q.tries
    /\ q.effects > 0 => q.odd
    /\ q.tries > 1 => q.mode # "runuser"
    /\ q.tries = 3 => q.mode = "su-login"
    /\ q.known => q.mode = "su-login" /\ q.tries = 1

\* and of one at any time, where s is the server
Tried(q, s) ==
    /\ q.at = "idle" => q = NoRun
    /\ q.at = "attempt" => Trying(q)
    /\ q.effects > 1 => q.odd
    /\ q.at = "done" /\ q.code = 127 /\ s.place[q.name] # "nowhere" => q.effects > 0
    /\ q.known => q.tries = 1

Attempts == RunTypeOK /\ \A r \in Runs : Tried(run[r], site)

Passed == \A c \in Callers :
    /\ Allowed(c) => everOn[c]
    /\ call[c].at \in {"handler", "running"} => everOn[c]
    /\ run[c].at # "idle" => everOn[c]

Offers == \A c \in Callers :
    call[c].at \in {"gate", "handler"} => call[c].tool = RunCommand \/ offered[call[c].tool] # None

Written(c) == {i \in 1..Len(jobLogs) : jobLogs[i][1] = c}

Logged(c) ==
    /\ \A i, j \in Written(c) : i = j
    /\ \A i \in Written(c) : call[c].at = "answered" /\ jobLogs[i][2] = call[c].answer
    /\ c \in tasks => call[c].at = "answered" /\ call[c].answer = "success" /\ Written(c) = {}
    /\ call[c].at = "refusing" => call[c].answer \in {"blocked", "denied"}
    /\ call[c].at = "failing" => call[c].answer = "error"
    /\ call[c].at = "answered" =>
        /\ call[c].answer \in {"blocked", "denied", "error"} => Written(c) # {}
        /\ call[c].answer = "success" => c \in tasks \cup lostRows \/ Written(c) # {}

Logs == \A c \in Callers : Logged(c)

\* the rows keep their names apart
Distinct == DistinctTools(rows)

RowTypes  == rows \in [Titles -> Row \cup {None}] /\ adm \in [Admins -> Request] /\ edits \in 0..MaxEdits
CallTypes == /\ offered \in [Tools -> Offer \cup {None}] /\ call \in [Callers -> Call]
             /\ restarts \in 0..MaxRestarts /\ everOn \in [Callers -> BOOLEAN]
LogTypes  == /\ jobLogs \in Seq(Callers \X {"blocked", "denied", "success", "error"})
             /\ tasks \subseteq Callers /\ lostRows \subseteq Callers

RowsInv  == RowTypes /\ Distinct
CallsInv == CallTypes /\ Passed /\ Offers
LogsInv  == LogTypes /\ Logs

IInv == Attempts /\ RowsInv /\ CallsInv /\ LogsInv
-----------------------------------------------------------------------------
(***************************************************************************)
(* run_ssh_as_user                                                         *)
(***************************************************************************)
LEMMA StageNames == RunStages = {"idle", "attempt", "done", "timeout", "refused", "error"}
  BY DEF RunStages

\* an idle record promises nothing, and has promised nothing yet
LEMMA NoRunTried ==
    NoRun \in RunRec /\ \A s \in Sites : Tried(NoRun, s)
  BY DEF NoRun, RunRec, RunStages, Tried

\* a mode is known for every name
LEMMA ModeOf ==
    ASSUME RunTypeOK, NEW n \in Names
    PROVE  EffMode(n) \in Modes /\ (n \in needs => EffMode(n) = "su-login")
  BY RunAssumption DEF RunTypeOK, EffMode, BaseMode, Modes

\* a call starts its first attempt, or is refused before it
LEMMA LaunchTried ==
    ASSUME Attempts, NEW r \in Runs, NEW n \in Names, Launch(r, n)
    PROVE  Attempts'
  <1> DEFINE known == n \in needs
             first == [NoRun EXCEPT !.at = "attempt", !.name = n, !.tries = 1,
                                    !.mode = EffMode(n), !.known = known]
             stop(e) == [NoRun EXCEPT !.at = e, !.name = n]
  <1>1. run \in [Runs -> RunRec] /\ site \in Sites /\ RunTypeOK /\ run[r] = NoRun
    BY DEF Attempts, RunTypeOK, Tried, Launch
  <1>2. UNCHANGED <<site, downgrade, needs>>
    BY DEF Launch
  <1>3. EffMode(n) \in Modes /\ (n \in needs => EffMode(n) = "su-login")
    BY <1>1, ModeOf
  <1>0. known \in BOOLEAN /\ (known => EffMode(n) = "su-login")
    BY <1>3
  <1> HIDE DEF known
  <1>4. first \in RunRec
    <2> DEFINE named == [NoRun EXCEPT !.at = "attempt", !.name = n]
    <2>1. named \in RunRec
      BY StageNames, NoRunTried DEF RunRec
    <2>2. first = [named EXCEPT !.tries = 1, !.mode = EffMode(n), !.known = known]
      OBVIOUS
    <2> HIDE DEF named
    <2>3. EffMode(n) \in Modes \cup {None} /\ 1 \in 0..3
      BY <1>3
    <2> QED  BY <1>0, <2>1, <2>2, <2>3 DEF RunRec
  <1>5. Trying(first)
    BY <1>0, <1>3 DEF NoRun, Trying
  <1>6. first.at = "attempt" /\ first.effects = 0 /\ first.tries = 1
    BY DEF NoRun
  <1>7. Tried(first, site)
    BY <1>5, <1>6 DEF Tried
  <1>8. ASSUME NEW e \in {"refused", "error"} PROVE stop(e) \in RunRec /\ Tried(stop(e), site)
    <2>1. stop(e) \in RunRec
      BY NoRunTried, StageNames DEF RunRec
    <2>2. stop(e).at = e /\ stop(e).effects = 0 /\ stop(e).known = FALSE
      BY DEF NoRun
    <2> QED  BY <2>1, <2>2 DEF Tried
  <1>9. \/ run' = [run EXCEPT ![r] = first]
        \/ \E e \in {"refused", "error"} : run' = [run EXCEPT ![r] = stop(e)]
    <2>1. \A e \in {"refused", "error"} :
            [[run EXCEPT ![r].at = e] EXCEPT ![r].name = n] = [run EXCEPT ![r] = stop(e)]
      BY <1>1
    <2> QED  BY <2>1, <1>1 DEF Launch, known
  <1> HIDE DEF first, stop
  <1>10. \E q \in RunRec : Tried(q, site) /\ run' = [run EXCEPT ![r] = q]
    BY <1>4, <1>7, <1>8, <1>9
  <1> QED  BY <1>1, <1>2, <1>10 DEF Attempts, RunTypeOK

\* what an attempt answers: a command that is found never exits with 126, and one that is not
\* found leaves a text that the two recoveries know
LEMMA OutcomeOf ==
    ASSUME NEW n, NEW m \in Modes, NEW o \in Outcomes(n, m)
    PROVE  /\ o.code \in Codes /\ o.code # 126
           /\ ~Found(n, m) => \/ o.code = 255
                              \/ /\ o.code = 127 /\ o.notfound
                                 /\ IF m = "runuser" THEN "runuser" \in o.says ELSE n \in o.says
  <1>1. CASE o = [code |-> 255, notfound |-> FALSE, says |-> {}]
    BY <1>1 DEF Codes
  <1>2. CASE Found(n, m) /\ o \in {[code |-> 0, notfound |-> FALSE, says |-> {}]} \cup
                                  {[code |-> k, notfound |-> TRUE, says |-> {n}] : k \in {1, 127}}
    BY <1>2 DEF Codes
  <1>3. CASE ~Found(n, m) /\ o = [code |-> 127, notfound |-> TRUE,
                                  says |-> CASE m # "runuser" -> {n}
                                             [] m = "runuser" /\ site.runuser -> {"runuser", n}
                                             [] OTHER -> {"runuser"}]
    <2>1. o.code = 127 /\ o.notfound = TRUE
      BY <1>3
    <2>2. o.says = CASE m # "runuser" -> {n} [] m = "runuser" /\ site.runuser -> {"runuser", n} [] OTHER -> {"runuser"}
      BY <1>3
    <2>3. IF m = "runuser" THEN "runuser" \in o.says ELSE n \in o.says
      BY <2>2
    <2> QED  BY <1>3, <2>1, <2>3 DEF Codes
  <1> QED  BY <1>1, <1>2, <1>3 DEF Outcomes

\* an attempt ends, and the call with it or not
LEMMA AttemptTried ==
    ASSUME Attempts, NEW r \in Runs, Attempt(r)
    PROVE  Attempts' /\ \A d \in Runs \ {r} : run'[d] = run[d]
  <1> DEFINE q == run[r]
             ran == Found(q.name, q.mode)
  <1>1. /\ run \in [Runs -> RunRec] /\ site \in Sites /\ RunTypeOK
        /\ q \in RunRec /\ q.at = "attempt" /\ Trying(q) /\ Tried(q, site)
    BY DEF Attempts, RunTypeOK, Tried, Attempt
  <1>2. q.name \in Names /\ q.mode \in Modes /\ q.tries \in 1..3 /\ q.effects \in 0..2 /\ q.effects < q.tries
    BY <1>1 DEF Trying, RunRec
  <1>3. PICK o \in Outcomes(q.name, q.mode) :
          LET done == [q EXCEPT !.effects = @ + (IF ran /\ o.code # 255 THEN 1 ELSE 0),
                                !.odd = @ \/ (ran /\ o.code = 127), !.code = o.code]
          IN  /\ downgrade' = IF Retries(r, o) /\ NoRunuser(r, o) THEN "su" ELSE downgrade
              /\ needs' = IF Retries(r, o) /\ ~NoRunuser(r, o) THEN needs \cup {q.name} ELSE needs
              /\ run' = [run EXCEPT ![r] =
                           IF Retries(r, o)
                             THEN [done EXCEPT !.mode = NextMode(r, o), !.tries = @ + 1]
                             ELSE [done EXCEPT !.at = "done"]]
    BY DEF Attempt
  <1>4. /\ o.code \in Codes /\ o.code # 126
        /\ ~ran => \/ o.code = 255
                   \/ /\ o.code = 127 /\ o.notfound
                      /\ IF q.mode = "runuser" THEN "runuser" \in o.says ELSE q.name \in o.says
    BY <1>2, <1>3, OutcomeOf
  <1> DEFINE e    == IF ran /\ o.code # 255 THEN 1 ELSE 0
             odd  == q.odd \/ (ran /\ o.code = 127)
             done == [q EXCEPT !.effects = @ + e, !.odd = odd, !.code = o.code]
             next == [done EXCEPT !.mode = NextMode(r, o), !.tries = @ + 1]
             last == [done EXCEPT !.at = "done"]
  <1>5. e \in {0, 1} /\ (e = 1 /\ o.code = 127 => odd) /\ (ran /\ o.code = 127 => e = 1)
        /\ odd \in BOOLEAN /\ (q.odd => odd)
    OBVIOUS
  <1>6. site' = site /\ run' = [run EXCEPT ![r] = IF Retries(r, o) THEN next ELSE last]
        /\ downgrade' \in {None, "su"} /\ needs' \subseteq Names
    <2>1. run' = [run EXCEPT ![r] = IF Retries(r, o) THEN next ELSE last]
      BY <1>3, Zenon
    <2>2. downgrade' \in {None, "su"} /\ needs' \subseteq Names
      BY <1>1, <1>2, <1>3 DEF RunTypeOK
    <2> QED  BY <2>1, <2>2 DEF Attempt
  <1> HIDE DEF e, odd
  <1>7. done \in RunRec
    <2>1. q.effects + e \in 0..3 /\ o.code \in Codes \cup {None}
      BY <1>2, <1>4, <1>5
    <2> QED  BY <1>1, <1>5, <2>1 DEF RunRec
  <1>8. /\ done.name = q.name /\ done.mode = q.mode /\ done.tries = q.tries /\ done.known = q.known
        /\ done.effects = q.effects + e /\ done.odd = odd /\ done.code = o.code
    BY <1>1 DEF RunRec
  <1> HIDE DEF done
  <1>9. ASSUME Retries(r, o) PROVE next \in RunRec /\ Tried(next, site)
    <2>1. q.tries \in {1, 2} /\ q.mode # "su-login" /\ o.code = 127 /\ NextMode(r, o) \in {"su", "su-login"}
      BY <1>2, <1>4, <1>9 DEF Retries, MayRetry, NextMode
    <2>2. q.tries = 2 => NextMode(r, o) = "su-login"
      BY <1>1, <2>1 DEF Trying, NextMode, NoRunuser
    <2>3. ~q.known /\ (q.effects + e > 0 => odd)
      BY <1>1, <1>2, <1>5, <2>1 DEF Trying
    <2> DEFINE mode == NextMode(r, o)
    <2> HIDE DEF mode
    <2>4. next \in RunRec
      <3>1. mode \in Modes \cup {None} /\ done.tries + 1 \in 0..3
        BY <1>8, <2>1 DEF Modes, mode
      <3>2. next = [done EXCEPT !.mode = mode, !.tries = done.tries + 1]
        BY DEF mode
      <3> QED  BY <1>7, <3>1, <3>2 DEF RunRec
    <2>5. /\ next.at = "attempt" /\ next.name = q.name /\ next.mode = NextMode(r, o)
          /\ next.tries = q.tries + 1 /\ next.known = q.known /\ next.effects = q.effects + e /\ next.odd = odd
      BY <1>1, <1>7, <1>8 DEF RunRec, done
    <2> HIDE DEF next
    <2>6. Trying(next)
      BY <1>2, <1>5, <2>1, <2>2, <2>3, <2>5 DEF Trying, Modes
    <2> QED  BY <1>2, <1>5, <2>3, <2>4, <2>5, <2>6 DEF Tried
  <1>10. ASSUME ~Retries(r, o) PROVE last \in RunRec /\ Tried(last, site)
    <2>1. last \in RunRec /\ last.at = "done"
      BY <1>7, StageNames DEF RunRec
    <2>2. /\ last.name = q.name /\ last.tries = q.tries /\ last.known = q.known
          /\ last.effects = q.effects + e /\ last.odd = odd /\ last.code = o.code
      BY <1>7, <1>8 DEF RunRec
    <2>3. q.effects + e > 1 => odd
      BY <1>1, <1>2, <1>5 DEF Trying
    <2>4. ASSUME o.code = 127, site.place[q.name] # "nowhere" PROVE q.effects + e > 0
      <3>1. CASE ran
        BY <1>2, <1>5, <2>4, <3>1
      <3>2. CASE ~ran
        <4>1. site.place[q.name] \in {"path", "profile"}
          BY <1>1, <1>2, <2>4, RunAssumption DEF Places
        <4>2. q.mode # "su-login"
          BY <3>2, <4>1 DEF Found
        <4>3. MayRetry(r, o)
          BY <1>1, <1>2, <2>4, <4>2 DEF MayRetry, Trying
        <4>4. NoRunuser(r, o) \/ Missing(r, o)
          BY <1>4, <2>4, <3>2 DEF NoRunuser, Missing
        <4> QED  BY <1>10, <4>3, <4>4 DEF Retries
      <3> QED  BY <3>1, <3>2
    <2>5. q.known => q.tries = 1
      BY <1>1 DEF Tried
    <2> HIDE DEF last
    <2> QED  BY <2>1, <2>2, <2>3, <2>4, <2>5 DEF Tried
  <1> HIDE DEF next, last
  <1>11. \E x \in RunRec : Tried(x, site) /\ run' = [run EXCEPT ![r] = x]
    BY <1>6, <1>9, <1>10
  <1> QED  BY <1>1, <1>6, <1>11 DEF Attempts, RunTypeOK

\* wait_for gives up
LEMMA TimesOutTried ==
    ASSUME Attempts, NEW r \in Runs, TimesOut(r)
    PROVE  Attempts'
  <1> DEFINE q == run[r]
  <1>1. /\ run \in [Runs -> RunRec] /\ site \in Sites /\ RunTypeOK
        /\ q \in RunRec /\ q.at = "attempt" /\ Trying(q) /\ Tried(q, site)
    BY DEF Attempts, RunTypeOK, Tried, TimesOut
  <1>2. PICK e \in {0, 1} : run' = [run EXCEPT ![r].at = "timeout", ![r].effects = @ + e]
    BY DEF TimesOut
  <1> DEFINE late == [q EXCEPT !.at = "timeout", !.effects = @ + e]
  <1>3. run' = [run EXCEPT ![r] = late]
    BY <1>1, <1>2
  <1>4. q.tries \in 1..3 /\ q.effects \in 0..2
    BY <1>1 DEF Trying, RunRec
  <1>5. late \in RunRec
    <2>1. "timeout" \in RunStages /\ q.effects + e \in 0..3
      BY <1>4, StageNames
    <2> QED  BY <1>1, <2>1 DEF RunRec
  <1>6. /\ late.at = "timeout" /\ late.effects = q.effects + e /\ late.odd = q.odd
        /\ late.known = q.known /\ late.tries = q.tries
    BY <1>1 DEF RunRec
  <1> HIDE DEF late
  <1>7. Tried(late, site)
    BY <1>1, <1>4, <1>6 DEF Tried, Trying
  <1> QED  BY <1>1, <1>3, <1>5, <1>7 DEF Attempts, RunTypeOK, TimesOut

\* the process starts over with nothing learnt
LEMMA RestartTried ==
    ASSUME Attempts, NEW keep, RunRestart(keep)
    PROVE  Attempts'
  <1>1. run \in [Runs -> RunRec] /\ site \in Sites
    BY DEF Attempts, RunTypeOK
  <1>2. run' \in [Runs -> RunRec] /\ \A r \in Runs : Tried(run'[r], site)
    BY <1>1, NoRunTried DEF RunRestart, Attempts
  <1> QED  BY <1>1, <1>2 DEF RunRestart, Attempts, RunTypeOK
-----------------------------------------------------------------------------
(***************************************************************************)
(* The wrapper of a tool                                                   *)
(***************************************************************************)
\* how a step moves the calls: to the gate they come from outside, past it only when allowed
Moves == \A d \in Callers :
    /\ call'[d].at = "gate" => call[d].at \in {"idle", "gate"}
    /\ call'[d].at \in {"handler", "running"} => call[d].at \in {"handler", "running"} \/ Allowed(d)
    /\ run'[d].at # "idle" => run[d].at # "idle" \/ call[d].at = "handler"

LEMMA PassedKept ==
    ASSUME CallTypes, Passed, History, Moves
    PROVE  Passed' /\ everOn' \in [Callers -> BOOLEAN]
  <1>1. everOn' \in [Callers -> BOOLEAN]
    BY DEF History, CallTypes
  <1>2. ASSUME NEW d \in Callers
        PROVE  /\ everOn[d] => everOn'[d]
               /\ call[d].at \in {"idle", "gate"} => (Allowed(d)' => everOn'[d])
    BY DEF History
  <1>3. ASSUME NEW d \in Callers, Allowed(d)' PROVE everOn'[d]
    BY <1>2, <1>3 DEF Moves, Allowed
  <1>4. ASSUME NEW d \in Callers, call'[d].at \in {"handler", "running"} PROVE everOn'[d]
    BY <1>2, <1>4 DEF Moves, Passed
  <1>5. ASSUME NEW d \in Callers, run'[d].at # "idle" PROVE everOn'[d]
    BY <1>2, <1>5 DEF Moves, Passed
  <1> QED  BY <1>1, <1>3, <1>4, <1>5 DEF Passed

\* the calls stay where they are
LEMMA CallsStay ==
    ASSUME CallsInv, History, UNCHANGED <<offered, call, restarts>>,
           \A d \in Callers : run'[d].at # "idle" => run[d].at # "idle"
    PROVE  CallsInv'
  <1>1. Moves
    BY DEF Moves
  <1>2. Passed' /\ everOn' \in [Callers -> BOOLEAN]
    BY <1>1, PassedKept DEF CallsInv
  <1> QED  BY <1>2 DEF CallsInv, CallTypes, Offers

\* what is recorded of a call stays as it is while neither the call nor its rows change
LEMMA LoggedKept ==
    ASSUME NEW d \in Callers, Logged(d), call'[d] = call[d], d \in tasks' <=> d \in tasks,
           d \in lostRows => d \in lostRows', Written(d)' = Written(d),
           \A i \in Written(d) : jobLogs'[i] = jobLogs[i]
    PROVE  Logged(d)'
  BY DEF Logged

\* an inserted row is its call's, and nobody else's rows change
LEMMA Appended ==
    ASSUME NEW c \in Callers, NEW status \in {"blocked", "denied", "success", "error"},
           LogTypes, jobLogs' = Append(jobLogs, <<c, status>>)
    PROVE  /\ jobLogs' \in Seq(Callers \X {"blocked", "denied", "success", "error"})
           /\ Written(c)' = Written(c) \cup {Len(jobLogs) + 1}
           /\ jobLogs'[Len(jobLogs) + 1] = <<c, status>>
           /\ \A d \in Callers \ {c} : Written(d)' = Written(d)
           /\ \A i \in 1..Len(jobLogs) : jobLogs'[i] = jobLogs[i]
  <1> DEFINE E == Callers \X {"blocked", "denied", "success", "error"}
  <1>1. jobLogs \in Seq(E) /\ <<c, status>> \in E
    BY DEF LogTypes
  <1> HIDE DEF E
  <1>2. /\ jobLogs' \in Seq(E) /\ Len(jobLogs') = Len(jobLogs) + 1 /\ Len(jobLogs) \in Nat
        /\ jobLogs'[Len(jobLogs) + 1] = <<c, status>>
        /\ \A i \in 1..Len(jobLogs) : jobLogs'[i] = jobLogs[i]
    BY <1>1
  <1>3. Written(c)' = Written(c) \cup {Len(jobLogs) + 1}
    BY <1>2 DEF Written
  <1>4. \A d \in Callers \ {c} : Written(d)' = Written(d)
    BY <1>2 DEF Written
  <1> QED  BY <1>2, <1>3, <1>4 DEF E

\* a call that was not answered has neither a row nor a task, and has none as long as nothing is written
LEMMA Unlogged ==
    ASSUME NEW d \in Callers, Logged(d), call[d].at # "answered"
    PROVE  Written(d) = {} /\ d \notin tasks
  BY DEF Logged

LEMMA LoggedMoved ==
    ASSUME NEW d \in Callers, Logged(d), call[d].at # "answered", UNCHANGED logVars,
           call'[d].at = "refusing" => call'[d].answer \in {"blocked", "denied"},
           call'[d].at = "failing" => call'[d].answer = "error",
           call'[d].at = "answered" => call'[d].answer \in {"refused", "dberror"}
    PROVE  Logged(d)'
  <1>1. Written(d)' = {} /\ d \notin tasks'
    BY Unlogged DEF logVars, Written
  <1> QED  BY <1>1 DEF Logged

\* a step of one call that writes nothing
LEMMA LogsMoved ==
    ASSUME LogsInv, NEW c \in Callers, call[c].at # "answered", UNCHANGED logVars,
           \A d \in Callers \ {c} : call'[d] = call[d],
           call'[c].at = "refusing" => call'[c].answer \in {"blocked", "denied"},
           call'[c].at = "failing" => call'[c].answer = "error",
           call'[c].at = "answered" => call'[c].answer \in {"refused", "dberror"}
    PROVE  LogsInv'
  <1>1. Logged(c)'
    BY LoggedMoved DEF LogsInv, Logs
  <1>2. ASSUME NEW d \in Callers \ {c} PROVE Logged(d)'
    <2>1. Written(d)' = Written(d) /\ call'[d] = call[d] /\ Logged(d)
      BY DEF LogsInv, Logs, logVars, Written
    <2> QED  BY <2>1, LoggedKept DEF logVars
  <1> QED  BY <1>1, <1>2 DEF LogsInv, LogTypes, Logs, logVars

LEMMA CallStages ==
    ASSUME NEW q, NEW l \in {"idle", "gate", "refusing", "handler", "running", "failing", "answered", "lost"},
           NEW a \in {None, "blocked", "denied", "success", "error", "refused", "dberror"}, q \in Call
    PROVE  [[q EXCEPT !.at = l] EXCEPT !.answer = a] \in Call
  BY DEF Call

\* what SetCall does
LEMMA CallSet ==
    ASSUME CallTypes, NEW c \in Callers,
           NEW l \in {"idle", "gate", "refusing", "handler", "running", "failing", "answered", "lost"},
           NEW a \in {None, "blocked", "denied", "success", "error", "refused", "dberror"}, SetCall(c, l, a)
    PROVE  /\ call' \in [Callers -> Call]
           /\ call'[c].at = l /\ call'[c].answer = a /\ call'[c].tool = call[c].tool
           /\ \A d \in Callers \ {c} : call'[d] = call[d]
  <1> DEFINE q == [[call[c] EXCEPT !.at = l] EXCEPT !.answer = a]
  <1>1. call \in [Callers -> Call] /\ call[c] \in Call
    BY DEF CallTypes
  <1>2. call' = [call EXCEPT ![c] = q]
    BY <1>1 DEF SetCall
  <1>3. q \in Call
    BY <1>1, CallStages
  <1>4. q.at = l /\ q.answer = a /\ q.tool = call[c].tool
    BY <1>1 DEF Call
  <1> HIDE DEF q
  <1> QED  BY <1>1, <1>2, <1>3, <1>4

LEMMA ArriveKept ==
    ASSUME CallsInv, LogsInv, NEW c \in Callers, Arrive(c), History
    PROVE  CallsInv' /\ LogsInv'
  <1>1. call \in [Callers -> Call] /\ offered \in [Tools -> Offer \cup {None}] /\ call[c].at = "idle"
    BY DEF CallsInv, CallTypes, Arrive
  <1>2. PICK k \in {RunCommand} \cup {j \in Tools : offered[j] # None} :
          call' = [call EXCEPT ![c] = IF c \in Anonymous
                                        THEN [at |-> "refusing", tool |-> k, answer |-> "denied"]
                                        ELSE [at |-> "gate", tool |-> k, answer |-> None]]
    BY DEF Arrive
  <1>3. UNCHANGED <<runVars, admVars, logVars, offered, restarts>>
    BY DEF Arrive
  <1>4. /\ call'[c] \in Call /\ call'[c].tool = k
        /\ call'[c].at \in {"refusing", "gate"}
        /\ call'[c].at = "refusing" => call'[c].answer = "denied"
        /\ \A d \in Callers \ {c} : call'[d] = call[d]
        /\ call' \in [Callers -> Call]
    BY <1>1, <1>2 DEF Call
  <1>5. Moves
    BY <1>1, <1>3, <1>4 DEF Moves, runVars
  <1>6. Passed' /\ everOn' \in [Callers -> BOOLEAN]
    BY <1>5, PassedKept DEF CallsInv
  <1>7. Offers'
    BY <1>2, <1>3, <1>4 DEF Offers, CallsInv
  <1>8. LogsInv'
    BY <1>1, <1>3, <1>4, LogsMoved
  <1> QED  BY <1>3, <1>4, <1>6, <1>7, <1>8 DEF CallsInv, CallTypes

LEMMA CheckKept ==
    ASSUME CallsInv, LogsInv, NEW c \in Callers, Check(c), History
    PROVE  CallsInv' /\ LogsInv'
  <1>1. CallTypes /\ call[c].at = "gate" /\ UNCHANGED <<runVars, admVars, logVars, offered, restarts>>
    BY DEF CallsInv, Check
  <1>2. \/ SetCall(c, "refusing", "blocked")
        \/ SetCall(c, "refusing", "denied")
        \/ Allowed(c) /\ SetCall(c, "handler", None)
        \/ SetCall(c, "answered", "dberror")
    BY DEF Check, Allowed, ToolState
  <1>3. /\ call' \in [Callers -> Call] /\ call'[c].tool = call[c].tool
        /\ call'[c].at \in {"refusing", "handler", "answered"}
        /\ call'[c].at = "refusing" => call'[c].answer \in {"blocked", "denied"}
        /\ call'[c].at = "answered" => call'[c].answer = "dberror"
        /\ call'[c].at = "handler" => Allowed(c)
        /\ \A d \in Callers \ {c} : call'[d] = call[d]
    <2>1. CASE SetCall(c, "refusing", "blocked")
      BY <1>1, <2>1, CallSet
    <2>2. CASE SetCall(c, "refusing", "denied")
      BY <1>1, <2>2, CallSet
    <2>3. CASE Allowed(c) /\ SetCall(c, "handler", None)
      BY <1>1, <2>3, CallSet
    <2>4. CASE SetCall(c, "answered", "dberror")
      BY <1>1, <2>4, CallSet
    <2> QED  BY <1>2, <2>1, <2>2, <2>3, <2>4
  <1>4. Moves
    BY <1>1, <1>3 DEF Moves, runVars
  <1>5. Passed' /\ everOn' \in [Callers -> BOOLEAN]
    BY <1>4, PassedKept DEF CallsInv
  <1>6. Offers'
    BY <1>1, <1>3 DEF Offers, CallsInv
  <1>7. LogsInv'
    BY <1>1, <1>3, LogsMoved
  <1> QED  BY <1>1, <1>3, <1>5, <1>6, <1>7 DEF CallsInv, CallTypes

\* the row of a refusal or an error is there before the answer
LEMMA LogRefusalKept ==
    ASSUME CallsInv, LogsInv, NEW c \in Callers, LogRefusal(c), History
    PROVE  CallsInv' /\ LogsInv'
  <1>1. /\ CallTypes /\ LogTypes /\ call[c] \in Call /\ call[c].at \in {"refusing", "failing"}
        /\ UNCHANGED <<runVars, admVars, tasks, offered, restarts>>
        /\ \/ Insert(c, call[c].answer) /\ SetCall(c, "answered", call[c].answer)
           \/ lostRows' = lostRows \cup {c} /\ SetCall(c, "answered", "dberror") /\ UNCHANGED jobLogs
    BY DEF CallsInv, LogsInv, CallTypes, LogRefusal, LogThenAnswer
  <1>2. Written(c) = {} /\ c \notin tasks /\ call[c].answer \in {"blocked", "denied", "error"}
    BY <1>1, Unlogged DEF LogsInv, Logs, Logged
  <1>3. /\ call' \in [Callers -> Call] /\ call'[c].at = "answered"
        /\ \A d \in Callers \ {c} : call'[d] = call[d]
    <2>1. CASE SetCall(c, "answered", call[c].answer)
      BY <1>1, <1>2, <2>1, CallSet
    <2>2. CASE SetCall(c, "answered", "dberror")
      BY <1>1, <2>2, CallSet
    <2> QED  BY <1>1, <2>1, <2>2
  <1>4. Moves
    BY <1>1, <1>3 DEF Moves, runVars
  <1>5. Passed' /\ everOn' \in [Callers -> BOOLEAN]
    BY <1>4, PassedKept DEF CallsInv
  <1>6. Offers'
    BY <1>1, <1>3 DEF Offers, CallsInv
  <1>7. LogsInv'
    <2>1. CASE Insert(c, call[c].answer) /\ SetCall(c, "answered", call[c].answer)
      <3> DEFINE n == Len(jobLogs) + 1
      <3>1. call'[c].answer = call[c].answer
        BY <1>1, <1>2, <2>1, CallSet
      <3>2. /\ jobLogs' \in Seq(Callers \X {"blocked", "denied", "success", "error"})
            /\ Written(c)' = {n} /\ jobLogs'[n] = <<c, call[c].answer>>
            /\ \A d \in Callers \ {c} : Written(d)' = Written(d)
            /\ \A i \in 1..Len(jobLogs) : jobLogs'[i] = jobLogs[i]
            /\ lostRows' = lostRows
        BY <1>1, <1>2, <2>1, Appended DEF Insert
      <3> HIDE DEF n
      <3>3. Logged(c)'
        BY <1>1, <1>2, <1>3, <3>1, <3>2 DEF Logged
      <3>4. ASSUME NEW d \in Callers \ {c} PROVE Logged(d)'
        BY <1>1, <1>3, <3>2, LoggedKept DEF LogsInv, Logs, Written
      <3> QED  BY <1>1, <3>2, <3>3, <3>4 DEF LogsInv, LogTypes, Logs
    <2>2. CASE lostRows' = lostRows \cup {c} /\ SetCall(c, "answered", "dberror") /\ UNCHANGED jobLogs
      <3>1. call'[c].answer = "dberror"
        BY <1>1, <2>2, CallSet
      <3>2. Logged(c)'
        BY <1>1, <1>2, <1>3, <2>2, <3>1 DEF Logged, Written
      <3>3. ASSUME NEW d \in Callers \ {c} PROVE Logged(d)'
        BY <1>1, <1>3, <2>2, LoggedKept DEF LogsInv, Logs, Written
      <3> QED  BY <1>1, <2>2, <3>2, <3>3 DEF LogsInv, LogTypes, Logs
    <2> QED  BY <1>1, <2>1, <2>2
  <1> QED  BY <1>1, <1>3, <1>5, <1>6, <1>7 DEF CallsInv, CallTypes

\* the handler starts the command of a tool on offer
LEMMA HandleKept ==
    ASSUME Attempts, CallsInv, LogsInv, NEW c \in Callers, Handle(c), History
    PROVE  Attempts' /\ CallsInv' /\ LogsInv'
  <1>1. /\ CallTypes /\ call[c] \in Call /\ call[c].at = "handler" /\ SetCall(c, "running", None)
        /\ UNCHANGED <<admVars, logVars, offered, restarts>>
    BY DEF CallsInv, CallTypes, Handle
  <1>2. PICK n \in (IF call[c].tool = RunCommand THEN Names ELSE {offered[call[c].tool].title}) : Launch(c, n)
    BY DEF Handle
  <1>3. n \in Names
    <2>1. CASE call[c].tool = RunCommand
      BY <1>2, <2>1
    <2>2. CASE call[c].tool # RunCommand
      <3>1. call[c].tool \in Tools /\ offered[call[c].tool] # None
        BY <1>1, <2>2 DEF CallsInv, Offers, Call
      <3>2. offered[call[c].tool] \in Offer
        BY <1>1, <3>1 DEF CallTypes
      <3> QED  BY <1>2, <2>2, <3>2, GateAssumption DEF Offer
    <2> QED  BY <2>1, <2>2
  <1>4. Attempts'
    BY <1>2, <1>3, LaunchTried DEF Callers
  <1>5. /\ call' \in [Callers -> Call] /\ call'[c].at = "running"
        /\ \A d \in Callers \ {c} : call'[d] = call[d]
    BY <1>1, CallSet
  <1>6. \A d \in Callers \ {c} : run'[d] = run[d]
    BY <1>2 DEF Launch, Attempts, RunTypeOK, Callers
  <1>7. Moves
    BY <1>1, <1>5, <1>6 DEF Moves
  <1>8. Passed' /\ everOn' \in [Callers -> BOOLEAN]
    BY <1>7, PassedKept DEF CallsInv
  <1>9. Offers'
    BY <1>1, <1>5 DEF Offers, CallsInv
  <1>10. LogsInv'
    BY <1>1, <1>5, LogsMoved
  <1> QED  BY <1>1, <1>4, <1>5, <1>8, <1>9, <1>10 DEF CallsInv, CallTypes

LEMMA RunItKept ==
    ASSUME Attempts, CallsInv, LogsInv, NEW c \in Callers, RunIt(c), History
    PROVE  Attempts' /\ CallsInv' /\ LogsInv'
  <1>1. RunStep(c) /\ UNCHANGED <<admVars, logVars, offered, call, restarts>>
    BY DEF RunIt
  <1>2. Attempts'
    BY <1>1, AttemptTried, TimesOutTried DEF RunStep, Callers
  <1>3. run[c].at = "attempt" /\ \A d \in Callers \ {c} : run'[d] = run[d]
    <2>1. CASE Attempt(c)
      <3>1. run[c].at = "attempt"
        BY <2>1 DEF Attempt
      <3> QED  BY <2>1, <3>1, AttemptTried DEF Callers
    <2>2. CASE TimesOut(c)
      <3>1. run \in [Runs -> RunRec]
        BY DEF Attempts, RunTypeOK
      <3> QED  BY <2>2, <3>1 DEF TimesOut, Callers
    <2> QED  BY <1>1, <2>1, <2>2 DEF RunStep
  <1>4. CallsInv'
    BY <1>1, <1>3, CallsStay
  <1>5. LogsInv'
    <2>1. ASSUME NEW d \in Callers PROVE Logged(d)'
      BY <1>1, LoggedKept DEF LogsInv, Logs, logVars, Written
    <2> QED  BY <1>1, <2>1 DEF LogsInv, LogTypes, Logs, logVars
  <1> QED  BY <1>2, <1>4, <1>5

\* a result is answered with a task for its row, an error is logged first
LEMMA AnswerKept ==
    ASSUME CallsInv, LogsInv, NEW c \in Callers, Answer(c), History
    PROVE  CallsInv' /\ LogsInv'
  <1>1. /\ CallTypes /\ LogTypes /\ call[c] \in Call /\ call[c].at = "running"
        /\ UNCHANGED <<runVars, admVars, jobLogs, lostRows, offered, restarts>>
        /\ \/ SetCall(c, "answered", "success") /\ tasks' = tasks \cup {c}
           \/ SetCall(c, "answered", "refused") /\ UNCHANGED tasks
           \/ SetCall(c, "failing", "error") /\ UNCHANGED tasks
    BY DEF CallsInv, LogsInv, CallTypes, Answer, LogLater
  <1>2. Written(c) = {} /\ c \notin tasks
    BY <1>1, Unlogged DEF LogsInv, Logs
  <1>3. /\ call' \in [Callers -> Call] /\ call'[c].at \in {"answered", "failing"}
        /\ \A d \in Callers \ {c} : call'[d] = call[d]
        /\ \/ call'[c].at = "answered" /\ call'[c].answer = "success" /\ tasks' = tasks \cup {c}
           \/ call'[c].at = "answered" /\ call'[c].answer = "refused" /\ UNCHANGED tasks
           \/ call'[c].at = "failing" /\ call'[c].answer = "error" /\ UNCHANGED tasks
    <2>1. CASE SetCall(c, "answered", "success") /\ tasks' = tasks \cup {c}
      BY <1>1, <2>1, CallSet
    <2>2. CASE SetCall(c, "answered", "refused") /\ UNCHANGED tasks
      BY <1>1, <2>2, CallSet
    <2>3. CASE SetCall(c, "failing", "error") /\ UNCHANGED tasks
      BY <1>1, <2>3, CallSet
    <2> QED  BY <1>1, <2>1, <2>2, <2>3
  <1>4. Moves
    BY <1>1, <1>3 DEF Moves, runVars
  <1>5. Passed' /\ everOn' \in [Callers -> BOOLEAN]
    BY <1>4, PassedKept DEF CallsInv
  <1>6. Offers'
    BY <1>1, <1>3 DEF Offers, CallsInv
  <1>7. Logged(c)'
    BY <1>1, <1>2, <1>3 DEF Logged, Written
  <1>8. ASSUME NEW d \in Callers \ {c} PROVE Logged(d)'
    <2>1. Logged(d) /\ call'[d] = call[d] /\ Written(d)' = Written(d) /\ jobLogs' = jobLogs /\ lostRows' = lostRows
      BY <1>1, <1>3 DEF LogsInv, Logs, Written
    <2>2. d \in tasks' <=> d \in tasks
      BY <1>3
    <2> QED  BY <2>1, <2>2, LoggedKept
  <1>9. LogsInv'
    BY <1>1, <1>3, <1>7, <1>8 DEF LogsInv, LogTypes, Logs
  <1> QED  BY <1>1, <1>3, <1>5, <1>6, <1>9 DEF CallsInv, CallTypes

\* the task of a result writes its row, or loses it
LEMMA WriteLogKept ==
    ASSUME CallsInv, LogsInv, NEW c \in Callers, WriteLog(c), History
    PROVE  CallsInv' /\ LogsInv'
  <1>1. /\ LogTypes /\ c \in tasks /\ tasks' = tasks \ {c}
        /\ UNCHANGED <<runVars, admVars, offered, call, restarts>>
        /\ \/ Insert(c, call[c].answer)
           \/ lostRows' = lostRows \cup {c} /\ UNCHANGED jobLogs
    BY DEF LogsInv, WriteLog
  <1>2. call[c].at = "answered" /\ call[c].answer = "success" /\ Written(c) = {}
    BY <1>1 DEF LogsInv, Logs, Logged
  <1>3. CallsInv'
    BY <1>1, CallsStay DEF runVars
  <1>4. CASE Insert(c, call[c].answer)
    <2> DEFINE n == Len(jobLogs) + 1
    <2>1. /\ jobLogs' \in Seq(Callers \X {"blocked", "denied", "success", "error"})
          /\ Written(c)' = {n} /\ jobLogs'[n] = <<c, "success">>
          /\ \A d \in Callers \ {c} : Written(d)' = Written(d)
          /\ \A i \in 1..Len(jobLogs) : jobLogs'[i] = jobLogs[i]
          /\ lostRows' = lostRows
      BY <1>1, <1>2, <1>4, Appended DEF Insert
    <2> HIDE DEF n
    <2>2. Logged(c)'
      BY <1>1, <1>2, <2>1 DEF Logged
    <2>3. ASSUME NEW d \in Callers \ {c} PROVE Logged(d)'
      BY <1>1, <2>1, LoggedKept DEF LogsInv, Logs, Written
    <2>4. LogsInv'
      BY <1>1, <2>1, <2>2, <2>3 DEF LogsInv, LogTypes, Logs
    <2> QED  BY <1>3, <2>4
  <1>5. CASE lostRows' = lostRows \cup {c} /\ UNCHANGED jobLogs
    <2>1. Logged(c)'
      BY <1>1, <1>2, <1>5 DEF Logged, Written
    <2>2. ASSUME NEW d \in Callers \ {c} PROVE Logged(d)'
      BY <1>1, <1>5, LoggedKept DEF LogsInv, Logs, Written
    <2>3. LogsInv'
      BY <1>1, <1>5, <2>1, <2>2 DEF LogsInv, LogTypes, Logs
    <2> QED  BY <1>3, <2>3
  <1> QED  BY <1>1, <1>4, <1>5

LEMMA LoadedOffers ==
    ASSUME RowTypes
    PROVE  Loaded \in [Tools -> Offer \cup {None}]
  <1> SUFFICES ASSUME NEW k \in Tools, \E t \in Titles : rows[t] # None /\ rows[t].tool = k
               PROVE  [title |-> RowOf(k), ops |-> rows[RowOf(k)].ops] \in Offer
    BY DEF Loaded
  <1>1. RowOf(k) \in Titles /\ rows[RowOf(k)] # None
    BY DEF RowOf
  <1>2. rows[RowOf(k)] \in Row
    BY <1>1 DEF RowTypes
  <1> QED  BY <1>1, <1>2 DEF Row, Offer

\* a call that was at work is lost with the process, and has no row
LEMMA RestartKept ==
    ASSUME Attempts, RowsInv, CallsInv, LogsInv, Restart, History
    PROVE  Attempts' /\ CallsInv' /\ LogsInv'
  <1> DEFINE keep == {c \in Callers : call[c].at \in {"answered", "running"}}
  <1>1. /\ CallTypes /\ LogTypes
        /\ restarts' \in 0..MaxRestarts
        /\ offered' \in [Tools -> Offer \cup {None}]
        /\ call' = [c \in Callers |-> IF call[c].at \in {"idle", "answered"} THEN call[c]
                                        ELSE [call[c] EXCEPT !.at = "lost"]]
        /\ RunRestart(keep)
        /\ tasks' = {} /\ lostRows' = lostRows \cup tasks
        /\ UNCHANGED <<admVars, jobLogs>>
    BY LoadedOffers, GateAssumption DEF RowsInv, CallsInv, CallTypes, LogsInv, Restart
  <1>2. Attempts'
    BY <1>1, RestartTried
  <1>3. ASSUME NEW d \in Callers
        PROVE  /\ call'[d] \in Call
               /\ \/ call[d].at \in {"idle", "answered"} /\ call'[d] = call[d]
                  \/ call[d].at \notin {"idle", "answered"} /\ call'[d].at = "lost"
    <2>1. call[d] \in Call
      BY <1>1 DEF CallTypes
    <2>2. [call[d] EXCEPT !.at = "lost"] \in Call /\ [call[d] EXCEPT !.at = "lost"].at = "lost"
      BY <2>1 DEF Call
    <2> QED  BY <1>1, <2>1, <2>2
  <1>4. ASSUME NEW d \in Callers, run'[d].at # "idle" PROVE run[d].at # "idle"
    BY <1>1, <1>4 DEF RunRestart, NoRun, Callers
  <1>5. Moves
    BY <1>3, <1>4 DEF Moves
  <1>6. Passed' /\ everOn' \in [Callers -> BOOLEAN]
    BY <1>5, PassedKept DEF CallsInv
  <1>7. call' \in [Callers -> Call]
    BY <1>1, <1>3
  <1>8. Offers'
    BY <1>3 DEF Offers
  <1>9. ASSUME NEW d \in Callers PROVE Logged(d)'
    <2>1. Written(d)' = Written(d) /\ jobLogs' = jobLogs /\ Logged(d)
      BY <1>1 DEF Written, LogsInv, Logs
    <2>2. CASE call[d].at \in {"idle", "answered"} /\ call'[d] = call[d]
      BY <1>1, <2>1, <2>2 DEF Logged
    <2>3. CASE call[d].at \notin {"idle", "answered"} /\ call'[d].at = "lost"
      BY <1>1, <2>1, <2>3, Unlogged DEF Logged
    <2> QED  BY <1>3, <2>2, <2>3
  <1>10. LogsInv'
    BY <1>1, <1>9 DEF LogsInv, LogTypes, Logs
  <1> QED  BY <1>1, <1>2, <1>6, <1>7, <1>8, <1>10 DEF CallsInv, CallTypes
-----------------------------------------------------------------------------
(***************************************************************************)
(* The console                                                             *)
(***************************************************************************)
LEMMA UsedNames == ASSUME RowTypes PROVE Used \subseteq Tools
  BY DEF Used, RowTypes, Row

\* a set of numbers that is not empty has a least one
LEMMA LeastOf ==
    ASSUME NEW S \in SUBSET Nat, S # {}
    PROVE  \E k \in S : \A m \in S : k <= m
  <1> DEFINE less == {ss \in Nat \X Nat : ss[1] < ss[2]}
  <1>1. IsWellFoundedOn(less, Nat)
    BY NatLessThanWellFounded DEF OpToRel
  <1> HIDE DEF less
  <1>2. PICK k \in S : \A m \in S : <<m, k>> \notin less
    BY <1>1, WFMin
  <1>3. ASSUME NEW m \in S PROVE k <= m
    <2>1. m \in Nat /\ k \in Nat /\ ~(m < k)
      BY <1>2 DEF less
    <2> QED  BY <2>1
  <1> QED  BY <1>3

\* what tool_name_for returns is a name of some kind
LEMMA FreeTool ==
    ASSUME NEW taken, NEW t \in Titles
    PROVE  FreeName(taken, t) \in Tools
  <1> DEFINE free == 1..MaxSuffix \ taken
  <1>1. CASE free = {}
    BY <1>1 DEF FreeName, Tools
  <1>2. CASE free # {}
    <2>1. free \in SUBSET Nat /\ free \subseteq Tools
      BY GateAssumption DEF Tools
    <2>2. FreeName(taken, t) = CHOOSE k \in free : \A m \in free : k <= m
      BY <1>2 DEF FreeName
    <2> HIDE DEF free
    <2>3. \E k \in free : \A m \in free : k <= m
      BY <1>2, <2>1, LeastOf
    <2> QED  BY <2>1, <2>2, <2>3
  <1> QED  BY <1>1, <1>2

LEMMA OpenKept ==
    ASSUME RowsInv, NEW a \in Admins, Open(a)
    PROVE  RowsInv'
  <1>1. PICK w \in {"create", "excel"}, T \in SUBSET Titles :
          adm' = [adm EXCEPT ![a] = [at |-> w, titles |-> T, taken |-> Used]]
    BY DEF Open, Edit
  <1>2. rows' = rows /\ edits' \in 0..MaxEdits
    BY GateAssumption DEF Open, Edit, RowsInv, RowTypes
  <1>3. Used \subseteq Tools
    BY UsedNames DEF RowsInv
  <1>4. adm' \in [Admins -> Request]
    BY <1>1, <1>3 DEF RowsInv, RowTypes, Request
  <1> QED  BY <1>2, <1>4 DEF RowsInv, RowTypes, Distinct, DistinctTools

\* the names a registration gives: an old title keeps its own, and no two new ones get the same,
\* since what the one got is among the names the other has seen
LEMMA Naming ==
    ASSUME RowTypes, NEW q \in Request, NEW order \in Orders(q.titles),
           NEW name \in [q.titles -> Tools \cup {None}],
           \A t \in q.titles : name[t] = NameOf(q, order, name, t)
    PROVE  /\ \A t \in q.titles : rows[t] # None => name[t] = rows[t].tool
           /\ \A t \in q.titles : name[t] # None => name[t] \in Tools
           /\ \A t, u \in q.titles : /\ rows[t] = None /\ rows[u] = None
                                    /\ name[t] # None /\ name[t] = name[u] => t = u
  <1>1. q.titles \subseteq Titles
    BY DEF Request
  <1>2. \A t \in q.titles : rows[t] # None => name[t] = rows[t].tool
    BY DEF NameOf
  <1>3. ASSUME NEW t \in q.titles, NEW u \in q.titles, rows[u] = None,
               name[t] # None, name[t] = name[u], order[t] < order[u]
        PROVE  FALSE
    <2>1. name[t] \in Seen(q, order, name, u)
      BY <1>3 DEF Seen
    <2>2. name[u] \notin Seen(q, order, name, u)
      <3> DEFINE seen == Seen(q, order, name, u)
                 k    == FreeName(seen, u)
      <3>1. name[u] = IF k \in seen THEN None ELSE k
        BY <1>3 DEF NameOf
      <3> HIDE DEF seen, k
      <3>2. name[u] # None
        BY <1>3
      <3>3. name[u] = k /\ k \notin seen
        BY <3>1, <3>2
      <3> QED  BY <3>3 DEF seen
    <2> QED  BY <1>3, <2>1, <2>2
  <1>4. \A t, u \in q.titles : order[t] \in Int /\ order[u] \in Int /\ (order[t] = order[u] => t = u)
    BY DEF Orders
  <1>5. ASSUME NEW t \in q.titles, NEW u \in q.titles, rows[t] = None, rows[u] = None,
               name[t] # None, name[t] = name[u]
        PROVE  t = u
    <2>1. order[t] < order[u] \/ order[u] < order[t] \/ order[t] = order[u]
      BY <1>4
    <2> QED  BY <1>3, <1>4, <1>5, <2>1
  <1> QED  BY <1>2, <1>5

\* one transaction writes the rows of a request under names that nobody has
LEMMA WriteKept ==
    ASSUME RowsInv, NEW a \in Admins, Write(a)
    PROVE  RowsInv'
  <1> DEFINE q == adm[a]
  <1>1. /\ rows \in [Titles -> Row \cup {None}] /\ adm \in [Admins -> Request] /\ edits' \in 0..MaxEdits
        /\ q \in Request /\ q.titles \subseteq Titles /\ DistinctTools(rows) /\ RowTypes
        /\ adm' = [adm EXCEPT ![a] = NoRequest]
    BY DEF RowsInv, RowTypes, Distinct, Request, Write
  <1>2. adm' \in [Admins -> Request]
    BY <1>1 DEF NoRequest, Request
  <1>3. CASE UNCHANGED rows
    BY <1>1, <1>2, <1>3 DEF RowsInv, RowTypes, Distinct
  <1>4. ASSUME ~UNCHANGED rows PROVE RowsInv'
    <2>1. PICK order \in Orders(q.titles), name \in [q.titles -> Tools \cup {None}] :
            /\ \A t \in q.titles : name[t] = NameOf(q, order, name, t)
            /\ \A t \in q.titles : ~(rows[t] = None /\ name[t] \in Used)
            /\ \E e, o \in BOOLEAN :
                 rows' = [t \in Titles |-> IF t \in q.titles /\ name[t] # None
                                             THEN [tool |-> name[t], enabled |-> e, ops |-> o] ELSE rows[t]]
      BY <1>4 DEF Write
    <2>2. PICK e \in BOOLEAN, o \in BOOLEAN :
            rows' = [t \in Titles |-> IF t \in q.titles /\ name[t] # None
                                        THEN [tool |-> name[t], enabled |-> e, ops |-> o] ELSE rows[t]]
      BY <2>1
    <2> HIDE DEF q
    <2>3. /\ \A t \in q.titles : rows[t] # None => name[t] = rows[t].tool
          /\ \A t \in q.titles : name[t] # None => name[t] \in Tools
          /\ \A t, u \in q.titles : /\ rows[t] = None /\ rows[u] = None
                                   /\ name[t] # None /\ name[t] = name[u] => t = u
      BY <1>1, <2>1, Naming
    <2>4. \A t \in Titles : rows[t] # None => rows[t] \in Row /\ rows[t].tool \in Used
      BY <1>1 DEF Used
    <2>5. rows' \in [Titles -> Row \cup {None}]
      BY <1>1, <2>2, <2>3 DEF Row
    <2>6. ASSUME NEW t \in Titles, rows'[t] # None
          PROVE  \/ rows[t] # None /\ rows'[t].tool = rows[t].tool
                 \/ rows[t] = None /\ t \in q.titles /\ name[t] # None /\ rows'[t].tool = name[t]
      BY <2>2, <2>3, <2>6
    <2>7. ASSUME NEW t \in Titles, NEW u \in Titles, rows'[t] # None, rows'[u] # None, rows'[t].tool = rows'[u].tool
          PROVE  t = u
      <3>1. CASE rows[t] # None /\ rows[u] # None
        BY <1>1, <2>6, <2>7, <3>1 DEF DistinctTools
      <3>2. CASE rows[t] = None /\ rows[u] = None
        BY <2>3, <2>6, <2>7, <3>2
      <3>3. CASE rows[t] = None /\ rows[u] # None
        BY <2>1, <2>4, <2>6, <2>7, <3>3
      <3>4. CASE rows[t] # None /\ rows[u] = None
        BY <2>1, <2>4, <2>6, <2>7, <3>4
      <3> QED  BY <3>1, <3>2, <3>3, <3>4
    <2> QED  BY <1>1, <1>2, <2>5, <2>7 DEF RowsInv, RowTypes, Distinct, DistinctTools
  <1> QED  BY <1>3, <1>4

LEMMA ToggleKept ==
    ASSUME RowsInv, NEW t \in Titles, Toggle(t)
    PROVE  RowsInv'
  <1>1. /\ rows \in [Titles -> Row \cup {None}] /\ rows[t] \in Row
        /\ rows' = [rows EXCEPT ![t].enabled = ~@] /\ adm' = adm /\ edits' \in 0..MaxEdits
    BY GateAssumption DEF Toggle, Edit, RowsInv, RowTypes
  <1> DEFINE row == [rows[t] EXCEPT !.enabled = ~@]
  <1>2. row \in Row /\ row.tool = rows[t].tool
    BY <1>1 DEF Row
  <1>3. rows' = [rows EXCEPT ![t] = row]
    BY <1>1
  <1> HIDE DEF row
  <1>4. rows' \in [Titles -> Row \cup {None}]
    BY <1>1, <1>2, <1>3
  <1>5. rows[t] # None /\ \A u \in Titles : rows'[u] # None => rows[u] # None /\ rows'[u].tool = rows[u].tool
    BY <1>1, <1>2, <1>3 DEF Toggle, Edit
  <1>6. DistinctTools(rows')
    BY <1>5 DEF DistinctTools, RowsInv, Distinct
  <1> QED  BY <1>1, <1>4, <1>6 DEF RowsInv, RowTypes, Distinct, DistinctTools

LEMMA DeleteKept ==
    ASSUME RowsInv, NEW t \in Titles, Delete(t)
    PROVE  RowsInv'
  <1>1. /\ rows \in [Titles -> Row \cup {None}]
        /\ rows' = [rows EXCEPT ![t] = None] /\ adm' = adm /\ edits' \in 0..MaxEdits
    BY GateAssumption DEF Delete, Edit, RowsInv, RowTypes
  <1>2. \A u \in Titles : rows'[u] # None => rows[u] # None /\ rows'[u] = rows[u]
    BY <1>1
  <1>3. DistinctTools(rows')
    BY <1>2 DEF DistinctTools, RowsInv, Distinct
  <1> QED  BY <1>1, <1>3 DEF RowsInv, RowTypes, Distinct, DistinctTools

\* a row may move to a title nobody has, with its name
LEMMA UpdateKept ==
    ASSUME RowsInv, NEW t \in Titles, NEW u \in Titles, Update(t, u)
    PROVE  RowsInv'
  <1>1. /\ rows \in [Titles -> Row \cup {None}] /\ adm' = adm /\ edits' \in 0..MaxEdits
        /\ rows[t] # None /\ (u = t \/ rows[u] = None) /\ rows[t] \in Row
    BY GateAssumption DEF Update, Edit, RowsInv, RowTypes
  <1>2. PICK e \in BOOLEAN, o \in BOOLEAN :
          rows' = [[rows EXCEPT ![t] = None] EXCEPT ![u] = [tool |-> rows[t].tool, enabled |-> e, ops |-> o]]
    BY DEF Update, Edit
  <1> DEFINE row == [tool |-> rows[t].tool, enabled |-> e, ops |-> o]
  <1>3. row \in Row /\ row.tool = rows[t].tool
    BY <1>1 DEF Row
  <1> HIDE DEF row
  <1>4. rows' = [[rows EXCEPT ![t] = None] EXCEPT ![u] = row]
    BY <1>2 DEF row
  <1>5. rows' \in [Titles -> Row \cup {None}]
    BY <1>1, <1>3, <1>4
  <1>6. /\ rows'[u] = row
        /\ \A v \in Titles \ {u} : rows'[v] # None => v # t /\ rows[v] # None /\ rows'[v] = rows[v]
    BY <1>1, <1>4
  <1>7. DistinctTools(rows')
    BY <1>1, <1>3, <1>6 DEF DistinctTools, RowsInv, Distinct
  <1> QED  BY <1>1, <1>5, <1>7 DEF RowsInv, RowTypes, Distinct, DistinctTools

\* an administrator's step leaves the calls, the commands and the log alone
LEMMA ConsoleKeeps ==
    ASSUME RowsInv, CallsInv, LogsInv, Attempts, Console, History
    PROVE  IInv'
  <1>1. RowsInv'
    BY OpenKept, WriteKept, ToggleKept, DeleteKept, UpdateKept DEF Console
  <1>2. UNCHANGED <<runVars, logVars, offered, call, restarts>>
    <2>1. ASSUME NEW a \in Admins, Open(a) \/ Write(a) PROVE UNCHANGED <<runVars, logVars, offered, call, restarts>>
      BY <2>1 DEF Open, Write, Edit
    <2>2. ASSUME NEW t \in Titles, Toggle(t) \/ Delete(t) \/ \E u \in Titles : Update(t, u)
          PROVE UNCHANGED <<runVars, logVars, offered, call, restarts>>
      BY <2>2 DEF Toggle, Delete, Update, Edit
    <2> QED  BY <2>1, <2>2 DEF Console
  <1>3. Attempts'
    BY <1>2 DEF Attempts, RunTypeOK, runVars
  <1>4. CallsInv'
    BY <1>2, CallsStay DEF runVars
  <1>5. LogsInv'
    <2>1. ASSUME NEW d \in Callers PROVE Logged(d)'
      BY <1>2, LoggedKept DEF LogsInv, Logs, logVars, Written
    <2> QED  BY <1>2, <2>1 DEF LogsInv, LogTypes, Logs, logVars
  <1> QED  BY <1>1, <1>3, <1>4, <1>5 DEF IInv

LEMMA RowsStay == ASSUME RowsInv, UNCHANGED admVars PROVE RowsInv'
  BY DEF RowsInv, RowTypes, Distinct, DistinctTools, admVars

LEMMA AttemptsStay == ASSUME Attempts, UNCHANGED runVars PROVE Attempts'
  BY DEF Attempts, RunTypeOK, runVars
-----------------------------------------------------------------------------
(***************************************************************************)
(* The invariant                                                           *)
(***************************************************************************)
LEMMA InitInv == Init => IInv
  <1> SUFFICES ASSUME Init PROVE IInv
    OBVIOUS
  <1>1. Attempts
    BY NoRunTried DEF Init, RunInit, Attempts, RunTypeOK
  <1>2. RowTypes /\ DistinctTools(rows)
    <2>1. NoRequest \in Request
      BY DEF NoRequest, Request
    <2> QED  BY <2>1, RowsAssumption, GateAssumption DEF Init, RowTypes
  <1>4. CallTypes
    <2>1. NoCall \in Call
      BY DEF NoCall, Call
    <2> QED  BY <1>2, <2>1, LoadedOffers, GateAssumption DEF Init, CallTypes
  <1>5. \A c \in Callers : call[c].at = "idle" /\ run[c].at = "idle"
    BY DEF Init, RunInit, NoCall, NoRun, Callers
  <1>6. Passed /\ Offers
    BY <1>5 DEF Passed, Offers, Allowed
  <1>7. LogTypes /\ \A c \in Callers : Written(c) = {}
    BY DEF Init, LogTypes, Written
  <1>8. Logs
    BY <1>5, <1>7 DEF Logs, Logged, Init
  <1> QED  BY <1>1, <1>2, <1>4, <1>6, <1>7, <1>8 DEF IInv, RowsInv, Distinct, CallsInv, LogsInv

LEMMA StepInv == IInv /\ [Next]_vars => IInv'
  <1> SUFFICES ASSUME IInv, [Next]_vars PROVE IInv'
    OBVIOUS
  <1>1. Attempts /\ RowsInv /\ CallsInv /\ LogsInv
    BY DEF IInv
  <1>2. ASSUME NEW c \in Callers, Step(c), History PROVE IInv'
    <2>1. CASE Arrive(c)
      BY <1>1, <1>2, <2>1, ArriveKept, RowsStay, AttemptsStay DEF IInv, Arrive
    <2>2. CASE Check(c)
      BY <1>1, <1>2, <2>2, CheckKept, RowsStay, AttemptsStay DEF IInv, Check
    <2>3. CASE LogRefusal(c)
      BY <1>1, <1>2, <2>3, LogRefusalKept, RowsStay, AttemptsStay DEF IInv, LogRefusal, LogThenAnswer
    <2>4. CASE Handle(c)
      BY <1>1, <1>2, <2>4, HandleKept, RowsStay DEF IInv, Handle
    <2>5. CASE RunIt(c)
      BY <1>1, <1>2, <2>5, RunItKept, RowsStay DEF IInv, RunIt
    <2>6. CASE Answer(c)
      BY <1>1, <1>2, <2>6, AnswerKept, RowsStay, AttemptsStay DEF IInv, Answer
    <2>7. CASE WriteLog(c)
      BY <1>1, <1>2, <2>7, WriteLogKept, RowsStay, AttemptsStay DEF IInv, WriteLog
    <2> QED  BY <1>2, <2>1, <2>2, <2>3, <2>4, <2>5, <2>6, <2>7 DEF Step
  <1>3. CASE Console /\ History
    BY <1>1, <1>3, ConsoleKeeps
  <1>4. CASE Restart /\ History
    BY <1>1, <1>4, RestartKept, RowsStay DEF IInv, Restart
  <1>5. CASE UNCHANGED vars
    <2>1. UNCHANGED <<runVars, admVars, logVars, offered, call, restarts, everOn>>
      BY <1>5 DEF vars
    <2>2. CallsInv'
      <3>1. ASSUME NEW c \in Callers PROVE Allowed(c)' <=> Allowed(c)
        BY <2>1 DEF Allowed, StateOf, RoleOk, RowOf, Used, admVars
      <3> QED  BY <1>1, <2>1, <3>1 DEF CallsInv, CallTypes, Passed, Offers, runVars
    <2>3. LogsInv'
      <3>1. ASSUME NEW d \in Callers PROVE Logged(d)'
        BY <1>1, <2>1, LoggedKept DEF LogsInv, Logs, logVars, Written
      <3> QED  BY <1>1, <2>1, <3>1 DEF LogsInv, LogTypes, Logs, logVars
    <2> QED  BY <1>1, <2>1, <2>2, <2>3, RowsStay, AttemptsStay DEF IInv
  <1> QED  BY <1>2, <1>3, <1>4, <1>5 DEF Next

\* The invariant of the execution server holds throughout: what a command has tried, why a call is
\* past the gate, what the log holds of it and that tool names stay apart.
THEOREM Invariance == Spec => []IInv
  <1> QED  BY InitInv, StepInv, PTL DEF Spec

\* Every variable keeps its type.
THEOREM TypeCorrect == Spec => []TypeOK
  <1>1. IInv => TypeOK
    BY DEF IInv, Attempts, RowsInv, RowTypes, CallsInv, CallTypes, LogsInv, LogTypes, TypeOK
  <1> QED  BY Invariance, <1>1, PTL

\* No command starts for a call that no state since its arrival allowed, whatever the administrators
\* change and however often the server restarts (server._tool_state at every call).
THEOREM OffIsOff == Spec => []OffMeansOff
  <1>1. IInv => OffMeansOff
    BY DEF IInv, CallsInv, Passed, OffMeansOff
  <1> QED  BY Invariance, <1>1, PTL

\* A refusal, an error or a result is on record or known to be lost, and at most once
\* (mcp_caller.build_wrapped, _log_later).
THEOREM AnswersAccounted == Spec => []EveryAnswerAccounted
  <1>1. IInv => EveryAnswerAccounted
    <2> SUFFICES ASSUME IInv, NEW c \in Callers
                 PROVE  /\ Cardinality(Written(c)) <= 1
                        /\ call[c].at = "answered" =>
                             CASE call[c].answer \in {"blocked", "denied", "error"} -> Written(c) # {}
                               [] call[c].answer = "success" -> c \in tasks \cup lostRows \/ Written(c) # {}
                               [] OTHER -> TRUE
                        /\ \A i \in Written(c) : jobLogs[i][2] = call[c].answer
      BY DEF EveryAnswerAccounted, Written
    <2>1. Logged(c)
      BY DEF IInv, LogsInv, Logs
    <2>2. Cardinality(Written(c)) <= 1
      <3>1. Written(c) = {} \/ \E i \in Written(c) : Written(c) = {i}
        BY <2>1 DEF Logged
      <3>2. CASE Written(c) = {}
        <4>1. Cardinality(Written(c)) = 0
          BY <3>2, FS_EmptySet
        <4> QED  BY <4>1
      <3>3. ASSUME NEW i, Written(c) = {i} PROVE Cardinality(Written(c)) <= 1
        <4>1. Cardinality(Written(c)) = 1
          BY <3>3, FS_Singleton
        <4> QED  BY <4>1
      <3> QED  BY <3>1, <3>2, <3>3
    <2> QED  BY <2>1, <2>2 DEF Logged
  <1> QED  BY Invariance, <1>1, PTL

\* A command is never run again for an ordinary failure, a lost connection or a time-out: only one
\* that itself ends like a missing command (run_ssh_as_user).
THEOREM RepeatsHaveReason == Spec => []RepeatOnlyAfterNotFound
  <1>1. IInv => RepeatOnlyAfterNotFound
    BY DEF IInv, Attempts, Tried, RepeatOnlyAfterNotFound
  <1> QED  BY Invariance, <1>1, PTL

\* Two recoveries reach the login shell from any mode, whatever other commands change between the
\* attempts, and a name that is known starts there (run_ssh_as_user).
THEOREM LoginShellReached == Spec => []FallbackFinds
  <1>1. IInv => FallbackFinds
    BY DEF IInv, Attempts, Tried, FallbackFinds
  <1> QED  BY Invariance, <1>1, PTL

\* No two rows of execution_commands share a tool name, so the row that _tool_state reads for a name
\* is the only one with it: although tool_name_for gives up looking after its last number and returns
\* a name with a hash that may be taken, and chooses from names read earlier.
THEOREM NamesApart == Spec => []DistinctTools(rows)
  <1>1. IInv => DistinctTools(rows)
    BY DEF IInv, RowsInv, Distinct
  <1> QED  BY Invariance, <1>1, PTL
=============================================================================
