-------------------------- MODULE SshMaster_proofs --------------------------
(***************************************************************************)
(* The resident ssh master for every number of login servers, processes    *)
(* and calls of ensure_master: types, and what holds of processes, sockets *)
(* and _master_procs in calm, when no call overlaps another and no socket  *)
(* in use is removed: each master that is up listens on its own socket, a  *)
(* child that still connects has a call that waits for it, and             *)
(* _master_procs points at neither kind wrongly.                           *)
(***************************************************************************)
EXTENDS SshMaster, TLAPS, FiniteSetTheorems

\* A process that runs has an address, and a call that waits for its child knows the child.
Owned ==
    /\ \A p \in Pids : Runs(p) => proc[p].ip \in Ips
    /\ \A c \in Callers : Active(c) => call[c].ip \in Ips
    /\ \A c \in Callers : call[c].at \in {"wait", "store"} =>
          /\ call[c].pid \in Pids
          /\ Runs(call[c].pid) => proc[call[c].pid].ip = call[c].ip

\* One call at a time, and no command connects beside it.
Alone ==
    /\ \A c, d \in Callers : Active(c) /\ Active(d) => c = d
    /\ \A c \in Callers : Active(c) => ~Connecting

\* A master that is up has the socket of its server, a child that still connects has a
\* call that waits for it and finds the path free.
Listening == \A p \in Pids : proc[p].st = "up" => proc[p].bound /\ sock[proc[p].ip] = p
Awaited ==
    \A p \in Pids : proc[p].st = "conn" /\ proc[p].ours =>
        /\ sock[proc[p].ip] = None
        /\ \E c \in Callers : call[c].at = "wait" /\ call[c].pid = p

\* What is kept, or about to be kept, in _master_procs is up or over.
Kept ==
    /\ \A i \in Ips : (masters[i] # None /\ Runs(masters[i])) =>
          proc[masters[i]].st = "up" /\ proc[masters[i]].ip = i
    /\ \A c \in Callers : (call[c].at = "store" /\ Runs(call[c].pid)) => proc[call[c].pid].st = "up"

\* The inductive invariant.
Calmly == Alone /\ Listening /\ Awaited /\ Kept
Inv == TypeOK /\ Owned /\ (Calm => Calmly)

USE MasterAssumption

LEMMA Labels ==
    /\ FreeProc \in Proc /\ FreeProc.st = "free" /\ ~FreeProc.ours
    /\ IdleCall \in CallRec /\ IdleCall.at = "idle" /\ IdleCall.pid = None /\ IdleCall.ip = None
BY DEF FreeProc, Proc, IdleCall, CallRec

LEMMA InitInv == Init => Inv
<1> SUFFICES ASSUME Init PROVE Inv
  OBVIOUS
<1>1. \A p \in Pids : ~Runs(p) /\ proc[p].st = "free"
  BY Labels DEF Init, Runs
<1>2. \A c \in Callers : call[c].at = "idle" /\ ~Active(c)
  BY Labels DEF Init, Active
<1>3. TypeOK
  <2>1. /\ proc \in [Pids -> Proc] /\ sock \in [Ips -> Pids \cup {None, Stale}]
        /\ masters \in [Ips -> Pids \cup {None}] /\ call \in [Callers -> CallRec]
    BY Labels DEF Init
  <2>2. host \in Ips /\ fails \in 0..MaxFails /\ faults \in 0..MaxFaults
    BY DEF Init
  <2>3. apart \in BOOLEAN /\ severed \in BOOLEAN
    BY Zenon DEF Init
  <2> QED BY <2>1, <2>2, <2>3 DEF TypeOK
<1>4. Owned
  BY <1>1, <1>2 DEF Owned
<1>5. Calmly
  BY <1>1, <1>2 DEF Init, Calmly, Alone, Listening, Awaited, Kept
<1> QED BY <1>3, <1>4, <1>5 DEF Inv

\* The call goes to another place.
LEMMA GotoDoes ==
    ASSUME TypeOK, NEW c \in Callers, NEW l \in {"idle", "check", "spawn", "wait", "store", "ok", "failed"},
           Goto(c, l)
    PROVE  /\ call' \in [Callers -> CallRec]
           /\ call'[c].at = l /\ call'[c].ip = call[c].ip /\ call'[c].pid = call[c].pid
           /\ \A d \in Callers \ {c} : call'[d] = call[d]
<1> DEFINE r == [call[c] EXCEPT !.at = l]
<1>1. call \in [Callers -> CallRec] /\ call[c] \in CallRec
  BY DEF TypeOK
<1>2. r \in CallRec /\ r.at = l /\ r.ip = call[c].ip /\ r.pid = call[c].pid
  BY <1>1 DEF CallRec
<1>3. call' = [call EXCEPT ![c] = r]
  BY <1>1 DEF Goto
<1> HIDE DEF r
<1> QED BY <1>1, <1>2, <1>3

\* Steps that leave the processes and the sockets as they are.
LEMMA Looking ==
    ASSUME Inv, TypeOK', NEW c \in Callers, UNCHANGED os, call[c].at # "idle",
           \A d \in Callers \ {c} : call'[d] = call[d],
           call'[c].at \in {"idle", "ok", "failed"}
             \/ /\ Active(c) /\ call'[c].ip = call[c].ip /\ call'[c].pid = call[c].pid
                /\ \/ call[c].at = "check" /\ call'[c].at = "spawn"
                   \/ call[c].at = "wait" /\ call'[c].at = "store" /\ Usable(call[c].ip),
           \A i \in Ips : \/ masters'[i] = masters[i]
                          \/ masters'[i] = call[c].pid /\ i = call[c].ip /\ call[c].at = "store",
           call'[c].at \in {"ok", "failed"} => (call[c].at = "wait" => ~Runs(call[c].pid)),
           call'[c].at = "idle" => call[c].at \in {"ok", "failed"},
           UNCHANGED past
    PROVE  Inv'
<1>1. \A p \in Pids : proc'[p] = proc[p] /\ (Runs(p)' <=> Runs(p))
  BY DEF os, Runs
<1>2. sock' = sock /\ proc' = proc
  BY DEF os
<1>3. \A d \in Callers : Active(d)' => Active(d) /\ call'[d].ip = call[d].ip
  BY DEF Active
<1>4. Owned'
  <2>1. \A p \in Pids : Runs(p)' => proc'[p].ip \in Ips
    BY <1>1 DEF Inv, Owned
  <2>2. \A d \in Callers : Active(d)' => call'[d].ip \in Ips
    BY <1>3 DEF Inv, Owned
  <2>3. ASSUME NEW d \in Callers, call'[d].at \in {"wait", "store"}
        PROVE  call'[d].pid \in Pids /\ (Runs(call[d].pid) => proc[call[d].pid].ip = call'[d].ip)
               /\ call'[d].pid = call[d].pid
    BY <2>3 DEF Inv, Owned
  <2>4. ASSUME NEW d \in Callers, NEW p, p = call'[d].pid, call'[d].at \in {"wait", "store"}
        PROVE  p \in Pids /\ (Runs(p)' => proc'[p].ip = call'[d].ip)
    BY <1>1, <2>3, <2>4
  <2> QED BY <2>1, <2>2, <2>4 DEF Owned, Runs
<1>5. ASSUME Calm PROVE Calmly'
  <2>1. Alone /\ Listening /\ Awaited /\ Kept
    BY <1>5 DEF Inv, Calmly
  <2>2. Alone'
    BY <1>2, <1>3, <2>1 DEF Alone, Connecting
  <2>3. Listening'
    BY <1>2, <2>1 DEF Listening
  <2>4. Awaited'
    <3> SUFFICES ASSUME NEW p \in Pids, proc[p].st = "conn", proc[p].ours
                 PROVE  /\ sock[proc[p].ip] = None
                        /\ \E d \in Callers : call'[d].at = "wait" /\ call'[d].pid = p
      BY <1>2 DEF Awaited
    <3>1. sock[proc[p].ip] = None /\ Runs(p)
      BY <2>1 DEF Awaited, Runs
    <3>2. PICK d \in Callers : call[d].at = "wait" /\ call[d].pid = p
      BY <2>1 DEF Awaited
    <3>3. ~Usable(call[d].ip)
      BY <3>1, <3>2 DEF Usable, Inv, Owned
    <3> QED BY <3>1, <3>2, <3>3 DEF Active
  <2>5. Kept'
    <3>1. ASSUME NEW i \in Ips, masters'[i] # None, Runs(masters'[i])
          PROVE  proc[masters'[i]].st = "up" /\ proc[masters'[i]].ip = i
      BY <2>1, <3>1 DEF Kept, Inv, Owned
    <3>2. ASSUME NEW d \in Callers, call'[d].at = "store", Runs(call'[d].pid)
          PROVE  proc[call'[d].pid].st = "up"
      <4>1. CASE call[d].at = "store"
        BY <2>1, <3>2, <4>1 DEF Kept, Active
      <4>2. CASE call[d].at # "store"
        <5>1. d = c /\ call[d].at = "wait" /\ Usable(call[d].ip) /\ call'[d].pid = call[d].pid
          BY <3>2, <4>2
        <5>2. call[d].pid \in Pids /\ proc[call[d].pid].ip = call[d].ip
          BY <3>2, <5>1 DEF Inv, Owned
        <5>3. CASE proc[call[d].pid].st = "conn" /\ proc[call[d].pid].ours
          BY <2>1, <5>1, <5>2, <5>3 DEF Awaited, Usable
        <5>4. CASE proc[call[d].pid].st = "conn" /\ ~proc[call[d].pid].ours
          BY <2>1, <5>1, <5>2, <5>4 DEF Alone, Active, Connecting
        <5> QED BY <3>2, <5>1, <5>3, <5>4, <5>2 DEF Runs, Inv, TypeOK, Proc
      <4> QED BY <4>1, <4>2
    <3> QED BY <1>1, <1>2, <3>1, <3>2 DEF Kept, Runs
  <2> QED BY <2>2, <2>3, <2>4, <2>5 DEF Calmly
<1> QED BY <1>4, <1>5 DEF Inv, Calm, past
\* How a process ends: nothing else runs or listens less for it.
LEMMA ExitDoes ==
    ASSUME TypeOK, NEW p \in Pids, NEW killed \in BOOLEAN, Exit({p}, killed)
    PROVE  /\ proc' \in [Pids -> Proc] /\ sock' \in [Ips -> Pids \cup {None, Stale}]
           /\ proc'[p] = FreeProc
           /\ \A q \in Pids \ {p} : proc'[q] = proc[q]
           /\ \A i \in Ips : \/ sock'[i] = sock[i]
                             \/ sock[i] = p /\ sock'[i] = Stale
                             \/ sock'[i] = None /\ ~killed /\ proc[p].ip = i /\ proc[p].bound
<1>1. proc' = [q \in Pids |-> IF q \in {p} THEN FreeProc ELSE proc[q]]
  BY DEF Exit
<1>2. proc \in [Pids -> Proc] /\ sock \in [Ips -> Pids \cup {None, Stale}]
  BY DEF TypeOK
<1>3. proc' \in [Pids -> Proc]
  BY <1>1, <1>2, Labels
<1>4. sock' = [i \in Ips |->
                  IF ~killed /\ (\E q \in {p} : proc[q].ip = i /\ proc[q].bound) THEN None
                  ELSE IF sock[i] \in {p} THEN Stale ELSE sock[i]]
  BY DEF Exit
<1>5. ASSUME NEW i \in Ips
      PROVE  /\ sock'[i] \in Pids \cup {None, Stale}
             /\ \/ sock'[i] = sock[i]
                \/ sock[i] = p /\ sock'[i] = Stale
                \/ sock'[i] = None /\ ~killed /\ proc[p].ip = i /\ proc[p].bound
  <2>1. CASE ~killed /\ proc[p].ip = i /\ proc[p].bound
    BY <1>4, <2>1
  <2>2. CASE ~(~killed /\ proc[p].ip = i /\ proc[p].bound) /\ sock[i] = p
    BY <1>4, <2>2
  <2>3. CASE ~(~killed /\ proc[p].ip = i /\ proc[p].bound) /\ sock[i] # p
    BY <1>2, <1>4, <2>3
  <2> QED BY <2>1, <2>2, <2>3
<1>6. sock' \in [Ips -> Pids \cup {None, Stale}]
  BY <1>4, <1>5
<1> QED BY <1>1, <1>3, <1>5, <1>6

\* A master removes the socket of no other: what it bound is its own.
LEMMA ExitInv ==
    ASSUME Inv, TypeOK', NEW p \in Pids, NEW killed \in BOOLEAN, Exit({p}, killed),
           ~killed => proc[p].st = "up", UNCHANGED masters, UNCHANGED past,
           \/ call' = call
           \/ \E c \in Callers : call[c].at = "wait" /\ call[c].pid = p /\ Goto(c, "failed")
    PROVE  Inv'
<1>1. /\ proc'[p] = FreeProc /\ \A q \in Pids \ {p} : proc'[q] = proc[q]
      /\ \A i \in Ips : \/ sock'[i] = sock[i]
                        \/ sock[i] = p /\ sock'[i] = Stale
                        \/ sock'[i] = None /\ ~killed /\ proc[p].ip = i /\ proc[p].bound
  BY ExitDoes DEF Inv
<1>2. \A q \in Pids : proc'[q].st \in {"conn", "up"} => q # p /\ Runs(q) /\ proc'[q] = proc[q]
  BY <1>1, Labels DEF Runs
<1>3. \A d \in Callers : \/ call'[d] = call[d]
                         \/ /\ call[d].at = "wait" /\ call[d].pid = p /\ call'[d].at = "failed"
                            /\ call'[d].pid = p
  BY GotoDoes DEF Inv
<1>4. Owned'
  <2>1. \A q \in Pids : Runs(q)' => proc'[q].ip \in Ips
    BY <1>2 DEF Inv, Owned, Runs
  <2>2. \A d \in Callers : Active(d)' => call'[d].ip \in Ips
    BY <1>3 DEF Inv, Owned, Active
  <2>3. ASSUME NEW d \in Callers, NEW q, q = call'[d].pid, call'[d].at \in {"wait", "store"}
        PROVE  q \in Pids /\ (proc'[q].st \in {"conn", "up"} => proc'[q].ip = call'[d].ip)
    BY <1>2, <1>3, <2>3 DEF Inv, Owned
  <2> QED BY <2>1, <2>2, <2>3 DEF Owned, Runs
<1>5. ASSUME Calm PROVE Calmly'
  <2>1. Alone /\ Listening /\ Awaited /\ Kept
    BY <1>5 DEF Inv, Calmly
  <2>2. \A q \in Pids : Runs(q) => proc[q].ip \in Ips
    BY DEF Inv, Owned
  <2>3. Alone'
    <3>1. Connecting' => Connecting
      BY <1>2 DEF Connecting
    <3>2. \A d \in Callers : Active(d)' => Active(d)
      BY <1>3 DEF Active
    <3> QED BY <2>1, <3>1, <3>2 DEF Alone
  <2>4. Listening'
    <3> SUFFICES ASSUME NEW q \in Pids, proc'[q].st = "up" PROVE proc'[q].bound /\ sock'[proc'[q].ip] = q
      BY DEF Listening
    <3>1. q # p /\ proc'[q] = proc[q] /\ proc[q].bound /\ sock[proc[q].ip] = q /\ proc[q].ip \in Ips
      BY <1>2, <2>1, <2>2 DEF Listening
    <3>2. ~killed => sock[proc[p].ip] = p
      BY <2>1 DEF Listening
    <3> QED BY <1>1, <3>1, <3>2
  <2>5. Awaited'
    <3> SUFFICES ASSUME NEW q \in Pids, proc'[q].st = "conn", proc'[q].ours
                 PROVE  /\ sock'[proc'[q].ip] = None
                        /\ \E d \in Callers : call'[d].at = "wait" /\ call'[d].pid = q
      BY DEF Awaited
    <3>1. q # p /\ proc'[q] = proc[q] /\ proc[q].ip \in Ips
      BY <1>2, <2>2
    <3>2. sock[proc[q].ip] = None
      BY <2>1, <3>1 DEF Awaited
    <3>3. PICK d \in Callers : call[d].at = "wait" /\ call[d].pid = q
      BY <2>1, <3>1 DEF Awaited
    <3>4. call'[d] = call[d]
      BY <1>3, <3>1, <3>3
    <3> QED BY <1>1, <3>1, <3>2, <3>3, <3>4
  <2>6. Kept'
    <3>1. ASSUME NEW i \in Ips, masters[i] # None, proc'[masters[i]].st \in {"conn", "up"}
          PROVE  proc'[masters[i]].st = "up" /\ proc'[masters[i]].ip = i
      <4>1. masters[i] \in Pids
        BY <3>1 DEF Inv, TypeOK
      <4> QED BY <1>2, <2>1, <3>1, <4>1 DEF Kept
    <3>2. ASSUME NEW d \in Callers, NEW q, q = call'[d].pid, call'[d].at = "store",
                 proc'[q].st \in {"conn", "up"}
          PROVE  proc'[q].st = "up"
      <4>1. call'[d] = call[d] /\ q \in Pids
        BY <1>3, <3>2 DEF Inv, Owned
      <4> QED BY <1>2, <2>1, <3>2, <4>1 DEF Kept
    <3> QED BY <3>1, <3>2 DEF Kept, Runs
  <2> QED BY <2>3, <2>4, <2>5, <2>6 DEF Calmly
<1> QED BY <1>4, <1>5 DEF Inv, Calm, past
-----------------------------------------------------------------------------
(***************************************************************************)
(* ensure_master                                                           *)
(***************************************************************************)
LEMMA BeginInv == ASSUME Inv, NEW c \in Callers, Begin(c) PROVE Inv'
<1> DEFINE new == [at |-> "check", ip |-> host, pid |-> None]
<1>1. TypeOK /\ host \in Ips /\ new \in CallRec /\ call[c].at = "idle" /\ UNCHANGED <<os, host, fails, faults>>
  BY DEF Inv, TypeOK, CallRec, Begin
<1>2. apart' = (apart /\ ~Others(c) /\ ~Connecting) /\ severed' = severed
  BY DEF Begin
<1>3. \/ Goto(c, "ok") /\ UNCHANGED masters
      \/ /\ call' = [call EXCEPT ![c] = new]
         /\ masters' = [masters EXCEPT ![host] = IF @ # None /\ ~Runs(@) THEN None ELSE @]
  BY DEF Begin, Goto
<1>4. /\ masters' \in [Ips -> Pids \cup {None}]
      /\ \A i \in Ips : masters'[i] = masters[i] \/ masters'[i] = None
  BY <1>1, <1>3 DEF TypeOK
<1>5. /\ call' \in [Callers -> CallRec] /\ \A d \in Callers \ {c} : call'[d] = call[d]
      /\ call'[c].at = "ok" \/ (call'[c].at = "check" /\ call'[c].ip = host)
  BY <1>1, <1>3, GotoDoes DEF TypeOK
<1>6. TypeOK'
  BY <1>1, <1>2, <1>4, <1>5 DEF TypeOK, os
<1>7. Owned'
  BY <1>1, <1>5 DEF Inv, Owned, os, Runs, Active
<1>8. ASSUME Calm' PROVE Calmly'
  <2>1. Calm /\ ~Others(c) /\ ~Connecting /\ Alone /\ Listening /\ Awaited /\ Kept
    BY <1>2, <1>8 DEF Inv, Calmly, Calm
  <2>2. Alone'
    <3>1. ~Connecting'
      BY <1>1, <2>1 DEF Connecting, os
    <3>2. \A d \in Callers : Active(d)' => d = c
      BY <1>5, <2>1 DEF Others, Active
    <3> QED BY <3>1, <3>2 DEF Alone
  <2>3. Listening' /\ Awaited'
    BY <1>1, <1>5, <2>1 DEF Listening, Awaited, os
  <2>4. Kept'
    BY <1>1, <1>4, <1>5, <2>1 DEF Kept, os, Runs
  <2> QED BY <2>2, <2>3, <2>4 DEF Calmly
<1> QED BY <1>6, <1>7, <1>8 DEF Inv

LEMMA LookInv ==
    ASSUME Inv, NEW c \in Callers, CheckAlive(c) \/ ChildGone(c) \/ Answers(c)
    PROVE  Inv'
<1>1. PICK l \in {"ok", "spawn", "failed", "store"} : Goto(c, l) /\ call' = [call EXCEPT ![c].at = l]
  BY DEF CheckAlive, ChildGone, Answers, Goto
<1>2. UNCHANGED <<os, masters, host, fails, faults, past>> /\ call[c].at \in {"check", "wait"} /\ TypeOK
  BY DEF CheckAlive, ChildGone, Answers, Inv
<1>3. /\ call' \in [Callers -> CallRec] /\ call'[c].at = l /\ call'[c].ip = call[c].ip
      /\ call'[c].pid = call[c].pid /\ \A d \in Callers \ {c} : call'[d] = call[d]
  BY <1>1, <1>2, GotoDoes
<1>4. TypeOK'
  BY <1>2, <1>3 DEF TypeOK, os, past
<1>5. CASE CheckAlive(c)
  <2>1. call[c].at = "check" /\ l \in {"ok", "spawn"} /\ Active(c)
    BY <1>3, <1>5, GotoDoes, <1>2 DEF CheckAlive, Active
  <2> QED BY <1>2, <1>3, <1>4, <2>1, Looking
<1>6. CASE ChildGone(c)
  <2>1. call[c].at = "wait" /\ ~Runs(call[c].pid) /\ l = "failed"
    BY <1>3, <1>6, GotoDoes, <1>2 DEF ChildGone
  <2> QED BY <1>2, <1>3, <1>4, <2>1, Looking
<1>7. CASE Answers(c)
  <2>1. call[c].at = "wait" /\ Usable(call[c].ip) /\ l = "store" /\ Active(c)
    BY <1>3, <1>7, GotoDoes, <1>2 DEF Answers, Active
  <2> QED BY <1>2, <1>3, <1>4, <2>1, Looking
<1> QED BY <1>5, <1>6, <1>7

LEMMA StoreInv == ASSUME Inv, NEW c \in Callers, Store(c) PROVE Inv'
<1>1. /\ call[c].at = "store" /\ Goto(c, "ok") /\ UNCHANGED <<os, host, fails, faults, past>> /\ TypeOK
      /\ masters' = [masters EXCEPT ![call[c].ip] = call[c].pid]
  BY DEF Store, Inv
<1>2. call[c].ip \in Ips /\ call[c].pid \in Pids
  BY <1>1 DEF Inv, Owned, Active
<1>3. /\ call' \in [Callers -> CallRec] /\ call'[c].at = "ok" /\ \A d \in Callers \ {c} : call'[d] = call[d]
  BY <1>1, GotoDoes
<1>4. /\ masters' \in [Ips -> Pids \cup {None}]
      /\ \A i \in Ips : masters'[i] = masters[i] \/ (masters'[i] = call[c].pid /\ i = call[c].ip)
  BY <1>1, <1>2 DEF TypeOK
<1>5. TypeOK'
  BY <1>1, <1>3, <1>4 DEF TypeOK, os, past
<1> QED BY <1>1, <1>3, <1>4, <1>5, Looking

LEMMA ReturnInv == ASSUME Inv, NEW c \in Callers, Return(c) PROVE Inv'
<1>1. /\ call[c].at \in {"ok", "failed"} /\ call' = [call EXCEPT ![c] = IdleCall]
      /\ UNCHANGED <<os, masters, host, faults, past>> /\ TypeOK
  BY DEF Return, Inv
<1>2. fails' \in 0..MaxFails
  <2>1. fails \in Nat /\ fails <= MaxFails
    BY <1>1 DEF TypeOK
  <2>2. fails' = fails \/ fails' = 0 \/ (fails < MaxFails /\ fails' = fails + 1)
    BY DEF Return
  <2> QED BY <2>1, <2>2
<1>3. /\ call' \in [Callers -> CallRec] /\ call'[c].at = "idle" /\ \A d \in Callers \ {c} : call'[d] = call[d]
  BY <1>1, Labels DEF TypeOK
<1>4. TypeOK'
  BY <1>1, <1>2, <1>3 DEF TypeOK, os, past
<1> QED BY <1>1, <1>3, <1>4, Looking

LEMMA DeadlineInv == ASSUME Inv, NEW c \in Callers, Deadline(c) PROVE Inv'
<1>1. /\ call[c].at = "wait" /\ Goto(c, "failed") /\ UNCHANGED <<masters, host, fails, faults, past>> /\ TypeOK
      /\ call[c].pid \in Pids
      /\ IF Runs(call[c].pid) THEN Exit({call[c].pid}, TRUE) ELSE UNCHANGED os
  BY DEF Deadline, Killed, Inv, Owned
<1>2. /\ call' \in [Callers -> CallRec] /\ call'[c].at = "failed" /\ \A d \in Callers \ {c} : call'[d] = call[d]
  BY <1>1, GotoDoes
<1>3. CASE Runs(call[c].pid)
  <2>1. Exit({call[c].pid}, TRUE)
    BY <1>1, <1>3
  <2>2. proc' \in [Pids -> Proc] /\ sock' \in [Ips -> Pids \cup {None, Stale}]
    BY <1>1, <2>1, ExitDoes
  <2>3. TypeOK'
    BY <1>1, <1>2, <2>2 DEF TypeOK, past
  <2> QED BY <1>1, <2>1, <2>3, ExitInv
<1>4. CASE ~Runs(call[c].pid)
  <2>1. UNCHANGED os /\ TypeOK'
    BY <1>1, <1>2, <1>4 DEF TypeOK, os, past
  <2> QED BY <1>1, <1>2, <1>4, <2>1, Looking
<1> QED BY <1>3, <1>4

LEMMA ProcessEnds == ASSUME Inv, NEW p \in Pids, Refused(p) \/ Lost(p) \/ Expires(p) PROVE Inv'
<1>1. TypeOK /\ UNCHANGED <<masters, call, host, fails, past>> /\ faults' \in 0..MaxFaults
  <2>1. TypeOK /\ faults \in 0..MaxFaults
    BY DEF Inv, TypeOK
  <2>2. UNCHANGED <<masters, call, host, fails, past>>
    BY DEF Refused, Lost, Expires
  <2>3. faults' = faults \/ (faults < MaxFaults /\ faults' = faults + 1)
    BY DEF Refused, Lost, Expires
  <2> QED BY <2>1, <2>2, <2>3
<1>2. PICK killed \in BOOLEAN : Exit({p}, killed) /\ (~killed => proc[p].st = "up")
  BY DEF Refused, Lost, Expires
<1>3. proc' \in [Pids -> Proc] /\ sock' \in [Ips -> Pids \cup {None, Stale}]
  BY <1>1, <1>2, ExitDoes
<1>4. TypeOK'
  BY <1>1, <1>3 DEF TypeOK, past
<1> QED BY <1>1, <1>2, <1>4, ExitInv
-----------------------------------------------------------------------------
(***************************************************************************)
(* The socket file is removed and a process starts to connect              *)
(***************************************************************************)

\* A free path and, at most, a new process: what was up does not listen there.
Starts(i, p) ==
    /\ sock' = [sock EXCEPT ![i] = None] /\ UNCHANGED masters
    /\ \A q \in Pids \ {p} : proc'[q] = proc[q]
    /\ p \in Pids => Unused(p) /\ proc'[p].st = "conn" /\ proc'[p].ip = i
    /\ \A d \in Callers :
          \/ call'[d] = call[d]
          \/ /\ call[d].at = "spawn" /\ call[d].ip = i /\ call'[d].ip = i
             /\ \/ call'[d].at = "failed"
                \/ call'[d].at = "wait" /\ call'[d].pid = p /\ p \in Pids
StartsCalmly(i, p) ==
    /\ Calm /\ ~Usable(i)
    /\ \A d \in Callers : Active(d) => call[d].at = "spawn" /\ (p \in Pids => proc'[p].ours)
    /\ (p \in Pids /\ proc'[p].ours) => \E d \in Callers : call'[d].at = "wait" /\ call'[d].pid = p

LEMMA Starting ==
    ASSUME Inv, TypeOK', NEW i \in Ips, NEW p, Starts(i, p), Calm' => StartsCalmly(i, p)
    PROVE  Inv'
<1> USE DEF Starts, StartsCalmly
<1>1. TypeOK /\ \A d \in Callers : Active(d)' => Active(d) /\ call'[d].ip = call[d].ip
  BY DEF Inv, Active
<1>2. p \in Pids => /\ proc[p].st \notin {"conn", "up"} /\ \A j \in Ips : masters[j] # p
                    /\ \A d \in Callers : call[d].pid # p
  BY DEF Unused, Runs
<1>3. Owned'
  <2>1. \A q \in Pids : proc'[q].st \in {"conn", "up"} => proc'[q].ip \in Ips
    BY DEF Inv, Owned, Runs
  <2>2. \A d \in Callers : Active(d)' => call'[d].ip \in Ips
    BY <1>1 DEF Inv, Owned
  <2>3. ASSUME NEW d \in Callers, NEW q, q = call'[d].pid, call'[d].at \in {"wait", "store"}
        PROVE  q \in Pids /\ (proc'[q].st \in {"conn", "up"} => proc'[q].ip = call'[d].ip)
    <3>1. CASE call'[d] = call[d]
      <4>1. q \in Pids /\ (proc[q].st \in {"conn", "up"} => proc[q].ip = call[d].ip)
        BY <2>3, <3>1 DEF Inv, Owned, Runs
      <4>2. q # p
        BY <1>2, <2>3, <3>1, <4>1
      <4> QED BY <3>1, <4>1, <4>2
    <3>2. CASE call'[d] # call[d]
      BY <2>3, <3>2
    <3> QED BY <3>1, <3>2
  <2> QED BY <2>1, <2>2, <2>3 DEF Owned, Runs
<1>4. ASSUME Calm' PROVE Calmly'
  <2>1. /\ Calm /\ ~Usable(i) /\ Alone /\ Listening /\ Awaited /\ Kept
        /\ \A d \in Callers : Active(d) => call[d].at = "spawn"
        /\ (\E d \in Callers : Active(d)) => (p \in Pids => proc'[p].ours)
        /\ (p \in Pids /\ proc'[p].ours) => \E d \in Callers : call'[d].at = "wait" /\ call'[d].pid = p
    BY <1>4 DEF Inv, Calmly
  <2>2. \A q \in Pids : Runs(q) => proc[q].ip \in Ips
    BY DEF Inv, Owned
  <2>3. \A q \in Pids : ~(proc[q].st = "conn" /\ proc[q].ours)
    BY <2>1 DEF Awaited, Active
  <2>4. Alone'
    <3>1. ASSUME NEW d \in Callers, Active(d) PROVE ~Connecting'
      BY <2>1, <3>1 DEF Alone, Connecting
    <3> QED BY <1>1, <2>1, <3>1 DEF Alone
  <2>5. Listening'
    <3> SUFFICES ASSUME NEW q \in Pids, proc'[q].st = "up" PROVE proc'[q].bound /\ sock'[proc'[q].ip] = q
      BY DEF Listening
    <3>1. q # p /\ proc'[q] = proc[q]
      OBVIOUS
    <3>2. proc[q].bound /\ sock[proc[q].ip] = q /\ proc[q].ip \in Ips
      BY <2>1, <2>2, <3>1 DEF Listening, Runs
    <3>3. proc[q].ip # i
      BY <2>1, <3>2 DEF Usable
    <3> QED BY <1>1, <3>1, <3>2, <3>3 DEF TypeOK
  <2>6. Awaited'
    <3> SUFFICES ASSUME NEW q \in Pids, proc'[q].st = "conn", proc'[q].ours
                 PROVE  /\ sock'[proc'[q].ip] = None
                        /\ \E d \in Callers : call'[d].at = "wait" /\ call'[d].pid = q
      BY DEF Awaited
    <3>1. q = p
      BY <2>3
    <3> QED BY <1>1, <2>1, <3>1 DEF TypeOK
  <2>7. Kept'
    <3>1. ASSUME NEW j \in Ips, masters[j] # None, proc'[masters[j]].st \in {"conn", "up"}
          PROVE  proc'[masters[j]].st = "up" /\ proc'[masters[j]].ip = j
      <4>1. masters[j] \in Pids /\ masters[j] # p
        BY <1>1, <1>2, <3>1 DEF TypeOK
      <4> QED BY <2>1, <3>1, <4>1 DEF Kept, Runs
    <3>2. ASSUME NEW d \in Callers, NEW q, q = call'[d].pid, call'[d].at = "store"
          PROVE  FALSE
      BY <2>1, <3>2 DEF Active
    <3> QED BY <3>1, <3>2 DEF Kept, Runs
  <2> QED BY <2>4, <2>5, <2>6, <2>7 DEF Calmly
<1> QED BY <1>3, <1>4 DEF Inv

LEMMA SpawnInv == ASSUME Inv, NEW c \in Callers, Spawn(c) PROVE Inv'
<1>0. PICK i : i = call[c].ip
  OBVIOUS
<1>1. /\ call[c].at = "spawn" /\ TypeOK /\ i \in Ips /\ UNCHANGED <<masters, host, fails, faults>>
      /\ sock' = [sock EXCEPT ![i] = None] /\ severed' = (severed \/ Usable(i)) /\ apart' = apart
  BY <1>0 DEF Spawn, Inv, Owned, Active, Unlinked
<1>2. PICK p \in Pids :
        /\ Unused(p)
        /\ proc' = [proc EXCEPT ![p] = [st |-> "conn", ip |-> i, ours |-> TRUE, bound |-> FALSE]]
        /\ call' = [call EXCEPT ![c].at = "wait", ![c].pid = p]
  BY <1>0 DEF Spawn
<1> DEFINE new == [st |-> "conn", ip |-> i, ours |-> TRUE, bound |-> FALSE]
           r == [call[c] EXCEPT !.at = "wait", !.pid = p]
<1>3. new \in Proc /\ new.st = "conn" /\ new.ip = i /\ new.ours
  BY <1>1 DEF Proc
<1>4. r \in CallRec /\ r.at = "wait" /\ r.pid = p /\ r.ip = i
  BY <1>0, <1>1 DEF TypeOK, CallRec
<1>5. call' = [call EXCEPT ![c] = r]
  BY <1>1, <1>2 DEF TypeOK, CallRec
<1> HIDE DEF new, r
<1>6. /\ proc' \in [Pids -> Proc] /\ proc'[p] = new /\ \A q \in Pids \ {p} : proc'[q] = proc[q]
  BY <1>1, <1>2, <1>3 DEF TypeOK, new
<1>7. /\ call' \in [Callers -> CallRec] /\ call'[c] = r /\ \A d \in Callers \ {c} : call'[d] = call[d]
  BY <1>1, <1>4, <1>5 DEF TypeOK
<1>8. TypeOK'
  BY <1>1, <1>6, <1>7 DEF TypeOK
<1>9. Calm => \A d \in Callers : Active(d) => d = c
  BY <1>1 DEF Inv, Calmly, Alone, Active
<1>10. \A d \in Callers : \/ call'[d] = call[d]
                          \/ /\ call[d].at = "spawn" /\ call[d].ip = i /\ call'[d].ip = i
                             /\ call'[d].at = "wait" /\ call'[d].pid = p
  BY <1>0, <1>1, <1>4, <1>7
<1>11. Calm' => /\ Calm /\ ~Usable(i)
                /\ \A d \in Callers : Active(d) => call[d].at = "spawn" /\ proc'[p].ours
                /\ \E d \in Callers : call'[d].at = "wait" /\ call'[d].pid = p
  BY <1>1, <1>3, <1>4, <1>6, <1>7, <1>9 DEF Calm
<1>12. Starts(i, p)
  BY <1>1, <1>2, <1>3, <1>6, <1>10 DEF Starts
<1>13. Calm' => StartsCalmly(i, p)
  BY <1>11 DEF StartsCalmly
<1> QED BY <1>1, <1>8, <1>12, <1>13, Starting

LEMMA SpawnFailsInv == ASSUME Inv, NEW c \in Callers, SpawnFails(c) PROVE Inv'
<1>0. PICK i : i = call[c].ip
  OBVIOUS
<1>1. /\ call[c].at = "spawn" /\ TypeOK /\ i \in Ips /\ UNCHANGED <<proc, masters, host, fails, faults>>
      /\ sock' = [sock EXCEPT ![i] = None] /\ severed' = (severed \/ Usable(i)) /\ apart' = apart /\ Goto(c, "failed")
  BY <1>0 DEF SpawnFails, Inv, Owned, Active, Unlinked
<1>2. /\ call' \in [Callers -> CallRec] /\ call'[c].at = "failed" /\ \A d \in Callers \ {c} : call'[d] = call[d]
  BY <1>1, GotoDoes
<1>3. TypeOK'
  BY <1>1, <1>2 DEF TypeOK
<1>4. Calm => \A d \in Callers : Active(d) => d = c
  BY <1>1 DEF Inv, Calmly, Alone, Active
<1>5. \A d \in Callers : \/ call'[d] = call[d]
                         \/ call[d].at = "spawn" /\ call[d].ip = i /\ call'[d].at = "failed"
  BY <1>0, <1>1, <1>2
<1> DEFINE p == None
<1>6. p \notin Pids /\ \A q \in Pids \ {p} : proc'[q] = proc[q]
  BY <1>1
<1>7. Calm' => /\ Calm /\ ~Usable(i)
               /\ \A d \in Callers : Active(d) => call[d].at = "spawn"
  BY <1>1, <1>4 DEF Calm
<1> HIDE DEF p
<1>8. Starts(i, p)
  BY <1>0, <1>1, <1>2, <1>5, <1>6, GotoDoes DEF Starts
<1>9. Calm' => StartsCalmly(i, p)
  BY <1>6, <1>7 DEF StartsCalmly
<1> QED BY <1>1, <1>3, <1>8, <1>9, Starting

LEMMA CommandConnectsInv == ASSUME Inv, CommandConnects PROVE Inv'
<1>1. /\ ~Usable(host) /\ TypeOK /\ host \in Ips /\ UNCHANGED <<masters, call, host, fails, faults>>
      /\ sock' = [sock EXCEPT ![host] = None] /\ apart' = (apart /\ \A c \in Callers : ~Active(c))
      /\ severed' = severed
  BY DEF CommandConnects, Inv, TypeOK
<1> DEFINE new == [st |-> "conn", ip |-> host, ours |-> FALSE, bound |-> FALSE]
<1>2. PICK p \in Pids : Unused(p) /\ proc' = [proc EXCEPT ![p] = new]
  BY DEF CommandConnects
<1>3. new \in Proc /\ new.st = "conn" /\ new.ip = host /\ ~new.ours
  BY <1>1 DEF Proc
<1> HIDE DEF new
<1>4. proc' \in [Pids -> Proc] /\ proc'[p] = new /\ \A q \in Pids \ {p} : proc'[q] = proc[q]
  BY <1>1, <1>2, <1>3 DEF TypeOK
<1>5. TypeOK'
  BY <1>1, <1>4 DEF TypeOK
<1>6. Starts(host, p)
  BY <1>1, <1>2, <1>3, <1>4 DEF Starts
<1>7. Calm' => StartsCalmly(host, p)
  BY <1>1, <1>3, <1>4 DEF StartsCalmly, Calm
<1> QED BY <1>1, <1>5, <1>6, <1>7, Starting
-----------------------------------------------------------------------------
(***************************************************************************)
(* The environment                                                         *)
(***************************************************************************)

\* A child of a call in calm finds the path free and binds it.
LEMMA ConnectedInv == ASSUME Inv, NEW p \in Pids, Connected(p) PROVE Inv'
<1> DEFINE i == proc[p].ip
<1>1. /\ proc[p].st = "conn" /\ UNCHANGED <<masters, call, host, fails, faults, past>> /\ TypeOK /\ i \in Ips
      /\ proc[p] \in Proc
  BY DEF Connected, Inv, Owned, Runs, TypeOK
<1> DEFINE up == [proc[p] EXCEPT !.st = "up"]
           both == [proc[p] EXCEPT !.st = "up", !.bound = TRUE]
<1>2. /\ up \in Proc /\ up.st = "up" /\ up.ip = i /\ up.ours = proc[p].ours
      /\ both \in Proc /\ both.st = "up" /\ both.ip = i /\ both.ours = proc[p].ours /\ both.bound
  BY <1>1 DEF Proc
<1>3. \/ proc' = [proc EXCEPT ![p] = up] /\ sock' = sock /\ File(i) /\ proc[p].ours
      \/ proc' = [proc EXCEPT ![p] = FreeProc] /\ sock' = sock
      \/ proc' = [proc EXCEPT ![p] = both] /\ sock' = [sock EXCEPT ![i] = p] /\ ~File(i)
  BY <1>1 DEF Connected, TypeOK, Proc
<1> HIDE DEF up, both
<1>4. /\ proc' \in [Pids -> Proc] /\ \A q \in Pids \ {p} : proc'[q] = proc[q]
      /\ \/ proc'[p].st = "up" /\ proc'[p].ip = i /\ sock' = sock /\ File(i) /\ proc[p].ours
         \/ proc'[p].st = "free" /\ sock' = sock
         \/ /\ proc'[p].st = "up" /\ proc'[p].ip = i /\ proc'[p].bound
            /\ sock' = [sock EXCEPT ![i] = p] /\ ~File(i)
  BY <1>1, <1>2, <1>3, Labels DEF TypeOK
<1>5. TypeOK'
  BY <1>1, <1>4 DEF TypeOK, past
<1>6. Owned'
  <2>1. \A q \in Pids : proc'[q].st \in {"conn", "up"} =>
          Runs(q) /\ proc'[q].ip = proc[q].ip
    BY <1>1, <1>4 DEF Runs
  <2> QED BY <1>1, <2>1 DEF Inv, Owned, Runs, Active
<1>7. ASSUME Calm PROVE Calmly'
  <2>1. Alone /\ Listening /\ Awaited /\ Kept
    BY <1>7 DEF Inv, Calmly
  <2>2. Alone'
    <3>1. Connecting' => Connecting
      BY <1>4 DEF Connecting
    <3> QED BY <1>1, <2>1, <3>1 DEF Alone, Active
  <2>3. Listening'
    <3> SUFFICES ASSUME NEW q \in Pids, proc'[q].st = "up" PROVE proc'[q].bound /\ sock'[proc'[q].ip] = q
      BY DEF Listening
    <3>1. CASE q = p
      <4>1. ~(File(i) /\ proc[p].ours)
        BY <1>1, <2>1 DEF Awaited, File
      <4> QED BY <1>1, <1>4, <3>1, <4>1 DEF TypeOK
    <3>2. CASE q # p
      <4>1. proc'[q] = proc[q] /\ proc[q].bound /\ sock[proc[q].ip] = q /\ q # None
        BY <1>4, <2>1, <3>2 DEF Listening
      <4>2. proc[q].ip \in Ips /\ (~File(i) => proc[q].ip # i)
        BY <3>2, <4>1 DEF Inv, Owned, Runs, File
      <4>3. sock'[proc[q].ip] = sock[proc[q].ip]
        BY <1>1, <1>4, <4>2 DEF TypeOK
      <4> QED BY <4>1, <4>3
    <3> QED BY <3>1, <3>2
  <2>4. Awaited'
    <3> SUFFICES ASSUME NEW q \in Pids, proc'[q].st = "conn", proc'[q].ours PROVE FALSE
      BY DEF Awaited
    <3>1. q # p /\ proc'[q] = proc[q]
      BY <1>4
    <3>2. PICK d \in Callers : call[d].at = "wait" /\ call[d].pid = q
      BY <2>1, <3>1 DEF Awaited
    <3>3. Active(d) /\ ~Connecting
      BY <2>1, <3>2 DEF Alone, Active
    <3>4. PICK e \in Callers : call[e].at = "wait" /\ call[e].pid = p
      BY <1>1, <2>1, <3>3 DEF Awaited, Connecting
    <3> QED BY <2>1, <3>1, <3>2, <3>3, <3>4 DEF Alone, Active
  <2>5. Kept'
    <3>1. ASSUME NEW j \in Ips, masters[j] # None, proc'[masters[j]].st \in {"conn", "up"}
          PROVE  proc'[masters[j]].st = "up" /\ proc'[masters[j]].ip = j
      <4>1. masters[j] \in Pids /\ masters[j] # p
        BY <1>1, <2>1, <3>1 DEF Kept, Runs, TypeOK
      <4> QED BY <1>4, <2>1, <3>1, <4>1 DEF Kept, Runs
    <3>2. ASSUME NEW d \in Callers, call[d].at = "store", proc'[call[d].pid].st \in {"conn", "up"}
          PROVE  proc'[call[d].pid].st = "up"
      <4>1. call[d].pid \in Pids /\ call[d].pid # p
        BY <1>1, <2>1, <3>2 DEF Kept, Runs, Inv, Owned
      <4> QED BY <1>4, <2>1, <3>2, <4>1 DEF Kept, Runs
    <3> QED BY <1>1, <3>1, <3>2 DEF Kept, Runs
  <2> QED BY <2>2, <2>3, <2>4, <2>5 DEF Calmly
<1> QED BY <1>1, <1>5, <1>6, <1>7 DEF Inv, Calm, past

\* The container starts with nothing running and at most stale files.
LEMMA RestartInv == ASSUME Inv, StopAndRestart PROVE Inv'
<1>1. /\ TypeOK /\ host' = host /\ fails' = 0 /\ apart' = TRUE /\ severed' = FALSE
      /\ proc' = [p \in Pids |-> FreeProc] /\ masters' = [i \in Ips |-> None]
      /\ call' = [c \in Callers |-> IdleCall]
      /\ faults < MaxFaults /\ faults' = faults + 1
  BY DEF StopAndRestart, Inv
<1>2. sock' \in [Ips -> Pids \cup {None, Stale}]
  <2>1. PICK stopped \in SUBSET Pids :
          sock' = [i \in Ips |-> CASE sock[i] \in stopped -> None
                                   [] sock[i] = None      -> None
                                   [] OTHER               -> Stale]
    BY DEF StopAndRestart
  <2> QED BY <2>1
<1>3. /\ proc' \in [Pids -> Proc] /\ masters' \in [Ips -> Pids \cup {None}]
      /\ call' \in [Callers -> CallRec] /\ faults' \in 0..MaxFaults /\ fails' \in 0..MaxFails
  BY <1>1, Labels DEF TypeOK
<1>4. TypeOK'
  BY <1>1, <1>2, <1>3 DEF TypeOK
<1>5. (\A p \in Pids : proc'[p].st = "free") /\ (\A c \in Callers : call'[c].at = "idle")
      /\ \A i \in Ips : masters'[i] = None
  BY <1>1, Labels
<1>6. Owned'
  BY <1>5 DEF Owned, Runs, Active
<1>7. Calmly'
  BY <1>5 DEF Calmly, Alone, Listening, Awaited, Kept, Active
<1> QED BY <1>4, <1>6, <1>7 DEF Inv

LEMMA SetHostInv == ASSUME Inv, SetHost \/ UNCHANGED vars PROVE Inv'
<1>1. UNCHANGED <<proc, sock, masters, call, fails, past>> /\ TypeOK
  BY DEF SetHost, vars, os, Inv
<1>2. host' \in Ips /\ faults' \in 0..MaxFaults
  BY <1>1 DEF SetHost, vars, TypeOK
<1>3. TypeOK'
  BY <1>1, <1>2 DEF TypeOK, past
<1>4. Owned'
  BY <1>1 DEF Inv, Owned, Runs, Active
<1>5. Calm => Calmly'
  BY <1>1 DEF Inv, Calmly, Alone, Connecting, Listening, Awaited, Kept, Runs, Active
<1> QED BY <1>1, <1>3, <1>4, <1>5 DEF Inv, Calm, past

LEMMA NextInv == ASSUME Inv, [Next]_vars PROVE Inv'
<1>1. ASSUME NEW c \in Callers, Step(c) PROVE Inv'
  BY <1>1, BeginInv, LookInv, SpawnInv, SpawnFailsInv, StoreInv, DeadlineInv, ReturnInv DEF Step
<1>2. ASSUME NEW p \in Pids, Connected(p) \/ Refused(p) \/ Lost(p) \/ Expires(p) PROVE Inv'
  BY <1>2, ConnectedInv, ProcessEnds
<1> QED BY <1>1, <1>2, RestartInv, SetHostInv, CommandConnectsInv DEF Next
-----------------------------------------------------------------------------
(***************************************************************************)
(* Theorems                                                                *)
(***************************************************************************)

\* The invariant holds in every reachable state.
THEOREM Invariance == Spec => []Inv
BY InitInv, NextInv, PTL DEF Spec

\* The processes, the sockets, _master_procs and the calls keep their types.
THEOREM TypeCorrect == Spec => []TypeOK
<1>1. Inv => TypeOK
  BY DEF Inv
<1> QED BY <1>1, Invariance, PTL

\* As long as no call of ensure_master overlaps another or a connecting command, and no check
\* of a socket in use runs into its timeout, at most one ssh -M of ours runs per login
\* server, whatever connection is lost, process killed or attempt refused or given up, and
\* from each restart of the service anew.
THEOREM OneMasterAtATime == Spec => []CalmOneMaster
<1>1. Inv => CalmOneMaster
  <2> SUFFICES ASSUME Inv, Calm, NEW i \in Ips PROVE Cardinality(Masters(i)) <= 1
    BY DEF CalmOneMaster
  <2>1. Alone /\ Listening /\ Awaited
    BY DEF Inv, Calmly
  <2>2. ASSUME NEW p \in Masters(i), NEW q \in Masters(i) PROVE p = q
    <3>1. /\ p \in Pids /\ proc[p].ours /\ proc[p].ip = i /\ proc[p].st \in {"conn", "up"}
          /\ q \in Pids /\ proc[q].ours /\ proc[q].ip = i /\ proc[q].st \in {"conn", "up"}
      BY DEF Masters, Runs
    <3>2. CASE proc[p].st = "conn" /\ proc[q].st = "conn"
      <4>1. \A c, d \in Callers : call[c].at = "wait" /\ call[d].at = "wait" => c = d
        BY <2>1 DEF Alone, Active
      <4> QED BY <2>1, <3>1, <3>2, <4>1 DEF Awaited
    <3>3. CASE ~(proc[p].st = "conn" /\ proc[q].st = "conn")
      BY <2>1, <3>1, <3>3 DEF Listening, Awaited
    <3> QED BY <3>2, <3>3
  <2>3. CASE Masters(i) = {}
    BY <2>3, FS_EmptySet
  <2>4. CASE Masters(i) # {}
    <3>1. PICK p : Masters(i) = {p}
      BY <2>2, <2>4
    <3>2. Cardinality({p}) = 1
      BY FS_Singleton
    <3> QED BY <3>1, <3>2
  <2> QED BY <2>3, <2>4
<1> QED BY <1>1, Invariance, PTL

\* Under the same two conditions the cheap look of ensure_master and of the supervisor at
\* the child and its file never takes a dead connection for a live one.
THEOREM LooksUpMeansUp == Spec => []CalmLooksUpIsUp
<1>1. Inv => CalmLooksUpIsUp
  <2> SUFFICES ASSUME Inv, Calm, NEW i \in Ips, LooksUp(i) PROVE Usable(i)
    BY DEF CalmLooksUpIsUp
  <2>1. Listening /\ Kept /\ masters[i] \in Pids /\ masters[i] # None /\ Runs(masters[i])
    BY DEF Inv, Calmly, LooksUp, TypeOK
  <2> QED BY <2>1 DEF Listening, Kept, Usable
<1> QED BY <1>1, Invariance, PTL
=============================================================================
