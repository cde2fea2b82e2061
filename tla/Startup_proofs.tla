---------------------------- MODULE Startup_proofs ----------------------------
(***************************************************************************)
(* Proofs about db-init (Startup).  The inductive invariant says of each   *)
(* stage what the stages before it have established, in five parts:        *)
(* Recorded about the migrations, Seeded about the settings, Passed about  *)
(* the catalog, and two about execution_commands: Names, that names are    *)
(* unique and made from their titles, and Imported, about the imports      *)
(* that run beside each other while no administrator changes a command.    *)
(***************************************************************************)
EXTENDS Startup, TLAPS, FiniteSetTheorems, WellFoundedInduction

Importers == {p \in Inits : Importing(p)}
\* db-inits for which every change since their reading of the registry was an import's
Live      == {p \in Inits : init[p].alone /\ init[p].at \in {"import", "custom", "seed", "done"}}
First(t)  == <<base[t], 1>>         \* the name a title gets if it is free

Recorded == \A p \in Inits :
    /\ init[p].applied \subseteq recorded
    /\ init[p].at \in {"registry", "import", "custom", "seed", "done"} => Known(init[p].release) \subseteq init[p].applied

Seeded == \A p \in Inits :
    /\ \A k \in init[p].keys : settings[k] # 0
    /\ init[p].at = "done" => init[p].keys = Keys

Passed == \A p \in Inits : init[p].at \in {"custom", "seed", "done"} => Catalog \subseteq init[p].titles

\* titles present have different names, each made from its title
Names ==
    /\ \A t, u \in Present : commands[t].tool = commands[u].tool => t = u
    /\ \A t \in Present : commands[t].tool[1] = base[t]

\* all numbers to a base are taken; then a title of the catalog may stay without a name
Full(b)    == \A i \in 1..MaxSuffix : <<b, i>> \in Used
Ready      == \A t \in Catalog : t \in Present \/ Full(base[t])
OfBase(b)  == {c \in Catalog : base[c] = b}
\* the titles of the catalog with a base whose names the process has seen or given
Counted(p, b) == {c \in OfBase(b) \cap Present : commands[c].tool \in init[p].taken}
InStep(p, b)  == Full(b) \/ Cardinality(OfBase(b) \cap init[p].titles) <= Cardinality(Counted(p, b))

\* every name seen or given is somebody's still
NamesHeld(p) == init[p].taken \subseteq Used
\* a title that has come by another import took its first name, or that name was in use
FirstInUse(p) == \A t \in (Catalog \cap Present) \ init[p].titles : First(t) \in Used
FirstTaken(p) == \A t \in Catalog \cap init[p].titles : t \in Present \/ First(t) \in init[p].taken
\* a custom command that came by another import has no name the catalog could still want
CustomApart(p) == \A h \in Custom \cap Present : commands[h].tool \notin init[p].taken =>
                      commands[h].tool = <<h, 1>> /\ \A t \in Catalog \ init[p].titles : base[t] # h
CustomTaken(p) == \A t \in Custom \cap init[p].titles : t \in Present \/ <<t, 1>> \in init[p].taken

Imported ==
    /\ \A p \in Live : \A q \in Importers : init[q].alone
    /\ \A p \in Live :
        /\ NamesHeld(p) /\ CustomTaken(p)
        /\ init[p].at \in {"import", "custom"} => FirstTaken(p)
        /\ init[p].at # "import" => Ready
        /\ init[p].at = "import" =>
            /\ FirstInUse(p) /\ CustomApart(p)
            /\ \A b \in Titles : InStep(p, b)

Bases == \A t \in Custom : base[t] = t

IInv == TypeOK /\ MigratedOnce /\ Recorded /\ Seeded /\ Passed /\ Bases /\ Names /\ Imported
-----------------------------------------------------------------------------
(***************************************************************************)
(* Names                                                                   *)
(***************************************************************************)

\* tool_name_for makes a name from the title: the first if it is free, one that is free if there is
\* one with a number.
LEMMA FreeNameFrom ==
    ASSUME NEW t \in Titles, base \in [Titles -> Titles], NEW taken
    PROVE  LET n == FreeName(t, taken)
           IN  /\ n \in ToolNames /\ n[1] = base[t]
               /\ First(t) \in taken \cup {n}
               /\ n \in taken => \A i \in 1..MaxSuffix : <<base[t], i>> \in taken
<1> DEFINE free == {i \in 1..MaxSuffix : <<base[t], i>> \notin taken}
           least == CHOOSE i \in free : \A j \in free : i <= j
<1>0. 1 \in 1..MaxSuffix
  BY StartupAssumption
<1>1. CASE free = {}
  <2>1. FreeName(t, taken) = <<base[t], Hash[t]>>
    BY <1>1 DEF FreeName
  <2>2. \A i \in 1..MaxSuffix : <<base[t], i>> \in taken
    BY <1>1
  <2> QED
    BY <1>0, <2>1, <2>2 DEF ToolNames, First
<1>2. CASE free # {}
  <2>1. FreeName(t, taken) = <<base[t], least>>
    BY <1>2 DEF FreeName
  <2>2. \E i \in free : \A j \in free : i <= j
    <3> DEFINE less == {ss \in Nat \X Nat : ss[1] < ss[2]}
    <3>1. free \subseteq Nat
      BY StartupAssumption
    <3>2. IsWellFoundedOn(less, Nat)
      BY NatLessThanWellFounded DEF OpToRel
    <3>3. PICK i \in free : \A j \in free : ~ (<<j, i>> \in less)
      <4> HIDE DEF free, less
      <4> QED
        BY <1>2, <3>1, <3>2, WFMin
    <3>4. ASSUME NEW j \in free PROVE i <= j
      <4>1. i \in Nat /\ j \in Nat
        BY <3>1
      <4>2. ~ (j < i)
        BY <3>3, <4>1
      <4> QED
        BY <4>1, <4>2
    <3> QED
      BY <3>4
  <2>3. least \in free /\ \A j \in free : least <= j
    <3> HIDE DEF free
    <3> QED
      BY <2>2
  <2> HIDE DEF least
  <2>4. least \in 1..MaxSuffix /\ <<base[t], least>> \notin taken
    BY <2>3
  <2>5. First(t) \notin taken => least = 1
    <3> SUFFICES ASSUME First(t) \notin taken PROVE least = 1
      OBVIOUS
    <3>1. 1 \in free
      BY <1>0 DEF First
    <3>2. least <= 1 /\ least \in Nat /\ least >= 1
      BY <2>3, <2>4, <3>1, StartupAssumption
    <3> QED
      BY <3>2
  <2> QED
    BY <2>1, <2>4, <2>5 DEF ToolNames, First
<1> QED
  BY <1>1, <1>2

\* The names in use are tool names.
LEMMA UsedNames ==
    ASSUME TypeOK
    PROVE  Used \subseteq ToolNames
BY DEF TypeOK, Used, Command
-----------------------------------------------------------------------------
(***************************************************************************)
(* The steps that do not touch execution_commands                          *)
(***************************************************************************)

LEMMA StageNames == {"databases", "creating", "schema", "apply", "registry", "import", "custom", "seed", "done", "dead"} \subseteq Stages
BY DEF Stages

\* What the steps do to a process leaves it a process, and the fields they do not name alone.
LEMMA ProcessUpdate ==
    ASSUME NEW r \in Process, NEW l \in Stages
    PROVE  /\ [r EXCEPT !.at = l] \in Process
           /\ \A a \in SUBSET Vers : [r EXCEPT !.at = l, !.applied = a] \in Process
           /\ \A ks \in SUBSET Keys : [r EXCEPT !.at = l, !.keys = ks] \in Process
<1>1. [r EXCEPT !.at = l] \in Process
  BY DEF Process
<1>2. ASSUME NEW a \in SUBSET Vers PROVE [r EXCEPT !.at = l, !.applied = a] \in Process
  BY DEF Process
<1>3. ASSUME NEW ks \in SUBSET Keys PROVE [r EXCEPT !.at = l, !.keys = ks] \in Process
  BY DEF Process
<1> QED
  BY <1>1, <1>2, <1>3

LEMMA NewProcess ==
    ASSUME NEW l \in Stages, NEW rel \in 0..MaxRelease
    PROVE  [Down EXCEPT !.at = l, !.release = rel] \in Process
BY StageNames DEF Process, Down, Stages

LEMMA UpdatedFields ==
    ASSUME NEW r \in Process
    PROVE  /\ \A l, a : LET q == [r EXCEPT !.at = l, !.applied = a]
                       IN  /\ q.at = l /\ q.applied = a /\ q.release = r.release /\ q.keys = r.keys
                           /\ q.taken = r.taken /\ q.titles = r.titles /\ q.alone = r.alone
           /\ \A l, ks : LET q == [r EXCEPT !.at = l, !.keys = ks]
                        IN  /\ q.at = l /\ q.keys = ks /\ q.release = r.release /\ q.applied = r.applied
                            /\ q.taken = r.taken /\ q.titles = r.titles /\ q.alone = r.alone
BY DEF Process

\* Such a step keeps what the imports know, if it lets no other process count as one of them.
LEMMA CommandsUntouched ==
    ASSUME Names, Imported, commands' = commands, base' = base,
           \A q \in Importers' : /\ q \in Importers
                                 /\ init'[q].taken = init[q].taken /\ init'[q].titles = init[q].titles
                                 /\ init'[q].alone = init[q].alone,
           \A q \in Live' : /\ q \in Live
                            /\ init'[q].taken = init[q].taken /\ init'[q].titles = init[q].titles
                            /\ init'[q].at = init[q].at \/ {init'[q].at, init[q].at} = {"seed", "done"}
    PROVE  Names' /\ Imported'
<1>1. Present' = Present /\ Used' = Used /\ \A t \in Titles : First(t)' = First(t)
  BY DEF Present, Used, First
<1>2. Names'
  BY <1>1 DEF Names
<1>3. ASSUME NEW p \in Live'
      PROVE  /\ p \in Live /\ NamesHeld(p)' = NamesHeld(p) /\ FirstInUse(p)' = FirstInUse(p)
             /\ FirstTaken(p)' = FirstTaken(p) /\ CustomApart(p)' = CustomApart(p)
             /\ CustomTaken(p)' = CustomTaken(p) /\ \A b \in Titles : InStep(p, b)' = InStep(p, b)
             /\ init'[p].titles = init[p].titles
             /\ init'[p].at \in {"import", "custom"} => init'[p].at = init[p].at
             /\ init'[p].at # "import" => init[p].at # "import"
  BY <1>1, <1>3 DEF NamesHeld, FirstInUse, FirstTaken, CustomApart, CustomTaken, InStep, Full, OfBase, Counted, Present, First, Titles
<1>4. Ready' = Ready
  BY <1>1 DEF Ready, Full
<1>5. Imported'
  BY <1>1, <1>3, <1>4 DEF Imported
<1> QED
  BY <1>2, <1>5

LEMMA StartKeeps ==
    ASSUME IInv, NEW p \in Inits, Start(p)
    PROVE  IInv'
<1> USE DEF IInv
<1>1. TypeOK'
  <2>1. [Down EXCEPT !.at = "databases", !.release = release] \in Process
    <3>1. "databases" \in Stages
      BY StageNames
    <3>2. release \in 0..MaxRelease
      BY StartupAssumption DEF TypeOK
    <3> QED
      BY <3>1, <3>2, NewProcess
  <2>2. init' \in [Inits -> Process]
    BY <2>1 DEF TypeOK, Start
  <2> QED
    BY <2>2 DEF TypeOK, Start, world, dbVars
<1>2. MigratedOnce' /\ Bases' /\ Recorded' /\ Seeded' /\ Passed'
  BY DEF TypeOK, Start, Process, Stages, Down, world, dbVars, MigratedOnce, Bases, Recorded, Seeded, Passed, Known
<1>3. Names' /\ Imported'
  <2>1. \A q \in Importers' \cup Live' : q # p /\ init'[q] = init[q]
    BY DEF TypeOK, Start, Down, Importers, Importing, Live
  <2> QED
    BY <2>1, CommandsUntouched DEF Start, world, Importers, Importing, Live
<1> QED
  BY <1>1, <1>2, <1>3

LEMMA EnsureDatabasesKeeps ==
    ASSUME IInv, NEW p \in Inits, EnsureDatabases(p)
    PROVE  IInv'
<1> USE DEF IInv
<1>1. PICK l \in {"creating", "schema", "dead"} :
          init' = [init EXCEPT ![p].at = l] /\ init[p].at \in {"databases", "creating"}
  BY DEF EnsureDatabases, To
<1>2. TypeOK'
  <2>1. init' \in [Inits -> Process]
    BY <1>1, ProcessUpdate, StageNames DEF TypeOK
  <2> QED
    BY <2>1 DEF TypeOK, EnsureDatabases, Fixed, world
<1>3. MigratedOnce' /\ Bases' /\ Recorded' /\ Seeded' /\ Passed'
  BY <1>1 DEF TypeOK, EnsureDatabases, Fixed, world, MigratedOnce, Bases, Recorded, Seeded, Passed, Known
<1>4. Names' /\ Imported'
  <2>1. \A q \in Importers' \cup Live' : q # p /\ init'[q] = init[q]
    BY <1>1 DEF TypeOK, Importers, Importing, Live
  <2> QED
    BY <2>1, CommandsUntouched DEF EnsureDatabases, Fixed, world, Importers, Importing, Live
<1> QED
  BY <1>2, <1>3, <1>4

LEMMA ReadAppliedKeeps ==
    ASSUME IInv, NEW p \in Inits, ReadApplied(p)
    PROVE  IInv'
<1> USE DEF IInv
<1>1. TypeOK'
  <2>1. init' \in [Inits -> Process]
    BY ProcessUpdate, StageNames DEF ReadApplied, TypeOK
  <2> QED
    BY <2>1 DEF TypeOK, ReadApplied, Fixed, world, dbVars
<1>2. MigratedOnce' /\ Bases' /\ Recorded' /\ Seeded' /\ Passed'
  BY DEF TypeOK, ReadApplied, Fixed, world, dbVars, MigratedOnce, Bases, Recorded, Seeded, Passed, Known
<1>3. Names' /\ Imported'
  <2>1. \A q \in Importers' \cup Live' : q # p /\ init'[q] = init[q]
    BY DEF ReadApplied, TypeOK, Importers, Importing, Live
  <2> QED
    BY <2>1, CommandsUntouched DEF ReadApplied, Fixed, world, Importers, Importing, Live
<1> QED
  BY <1>1, <1>2, <1>3

\* One transaction runs the SQL of a version and records it, so a version recorded meanwhile
\* fails the process and leaves the tables alone (apply_migrations).
LEMMA ApplyKeeps ==
    ASSUME IInv, NEW p \in Inits, Apply(p)
    PROVE  IInv'
<1> USE DEF IInv
<1>1. /\ recorded \subseteq recorded' /\ recorded' \subseteq Vers /\ ran' \in [Vers -> Nat] /\ MigratedOnce'
      /\ \E l \in {"apply", "dead", "registry"}, a \in SUBSET recorded' :
            /\ init' = [init EXCEPT ![p].at = l, ![p].applied = a]
            /\ l = "registry" => Known(init[p].release) \subseteq a
  <2>1. CASE Pending(p) = {} /\ To(p, "registry") /\ UNCHANGED <<ran, recorded>>
    <3>1. init' = [init EXCEPT ![p].at = "registry", ![p].applied = init[p].applied]
      BY <2>1 DEF To, TypeOK, Process
    <3> QED
      BY <2>1, <3>1 DEF TypeOK, Recorded, Pending, Missing, MigratedOnce
  <2>2. CASE \E v \in Pending(p) :
               /\ \A w \in Pending(p) : v <= w
               /\ Commit(v)
               /\ init' = [init EXCEPT ![p].applied = @ \cup {v}, ![p].at = IF v \in recorded THEN "dead" ELSE "apply"]
    <3>1. PICK v \in Pending(p) :
               /\ Commit(v)
               /\ init' = [init EXCEPT ![p].applied = @ \cup {v}, ![p].at = IF v \in recorded THEN "dead" ELSE "apply"]
      BY <2>2
    <3>2. v \in Vers
      BY DEF Pending, Missing, Known
    <3>3. ran' \in [Vers -> Nat] /\ MigratedOnce' /\ recorded' = recorded \cup {v}
      BY <3>1, <3>2 DEF Commit, Transaction, TypeOK, MigratedOnce
    <3> DEFINE l == IF v \in recorded THEN "dead" ELSE "apply"
               a == init[p].applied \cup {v}
    <3>4. init' = [init EXCEPT ![p].at = l, ![p].applied = a]
      BY <3>1 DEF TypeOK, Process
    <3>5. a \in SUBSET recorded' /\ l \in {"apply", "dead", "registry"} /\ l # "registry"
      BY <3>3 DEF Recorded
    <3> QED
      BY <3>2, <3>3, <3>4, <3>5 DEF TypeOK
  <2> QED
    BY <2>1, <2>2 DEF Apply
<1>2. PICK l \in {"apply", "dead", "registry"}, a \in SUBSET recorded' :
            /\ init' = [init EXCEPT ![p].at = l, ![p].applied = a]
            /\ l = "registry" => Known(init[p].release) \subseteq a
  BY <1>1
<1>3. TypeOK'
  <2>1. init' \in [Inits -> Process]
    BY <1>1, <1>2, ProcessUpdate, StageNames DEF TypeOK
  <2> QED
    BY <1>1, <2>1 DEF TypeOK, Apply, Fixed, world
<1>4. Bases' /\ Recorded' /\ Seeded' /\ Passed'
  <2> DEFINE q == init'[p]
  <2>1. /\ q.at = l /\ q.applied = a /\ q.release = init[p].release /\ q.keys = init[p].keys
        /\ q.taken = init[p].taken /\ q.titles = init[p].titles /\ q.alone = init[p].alone
        /\ \A i \in Inits \ {p} : init'[i] = init[i]
    BY <1>2, UpdatedFields DEF TypeOK
  <2> HIDE DEF q
  <2>2. Recorded'
    BY <1>1, <1>2, <2>1 DEF Recorded, Apply, Fixed, world, Known, q
  <2>3. Seeded'
    <3>1. UNCHANGED settings /\ l # "done"
      BY <1>2 DEF Apply
    <3>2. ASSUME NEW i \in Inits
          PROVE  (\A k \in init'[i].keys : settings'[k] # 0) /\ (init'[i].at = "done" => init'[i].keys = Keys)
      <4>1. CASE i = p
        BY <2>1, <3>1, <4>1 DEF Seeded, q
      <4>2. CASE i # p
        BY <2>1, <3>1, <4>2 DEF Seeded
      <4> QED
        BY <4>1, <4>2
    <3> QED
      BY <3>2 DEF Seeded
  <2>4. Passed'
    BY <2>1, <1>2 DEF Passed, q
  <2>5. Bases'
    BY DEF Bases, Apply, Fixed, world
  <2> QED
    BY <2>2, <2>3, <2>4, <2>5
<1>5. Names' /\ Imported'
  <2>1. \A q \in Importers' \cup Live' : q # p /\ init'[q] = init[q]
    BY <1>2, UpdatedFields DEF TypeOK, Importers, Importing, Live
  <2> QED
    BY <2>1, CommandsUntouched DEF Apply, Fixed, world, Importers, Importing, Live
<1> QED
  BY <1>1, <1>3, <1>4, <1>5

\* A row of settings once there stays: a seed only adds it (seed_config).
LEMMA SeedKeeps ==
    ASSUME IInv, NEW p \in Inits, Seed(p)
    PROVE  IInv'
<1> USE DEF IInv
<1>1. /\ settings' \in [Keys -> 0..MaxVal] /\ \A k \in Keys : settings[k] # 0 => settings'[k] # 0
      /\ \E l \in {"seed", "done"}, ks \in SUBSET Keys :
            /\ init' = [init EXCEPT ![p].at = l, ![p].keys = ks]
            /\ \A k \in ks : settings'[k] # 0
            /\ l = "done" => ks = Keys
  <2>1. CASE init[p].keys = Keys /\ To(p, "done") /\ UNCHANGED settings
    <3>1. init' = [init EXCEPT ![p].at = "done", ![p].keys = init[p].keys]
      BY <2>1 DEF To, TypeOK, Process
    <3> QED
      BY <2>1, <3>1 DEF TypeOK, Seeded
  <2>2. CASE \E k \in Keys \ init[p].keys :
               /\ settings' = [settings EXCEPT ![k] = IF k \in EnvKeys \/ @ = 0 THEN env ELSE @]
               /\ init' = [init EXCEPT ![p].keys = @ \cup {k}]
    <3>1. PICK k \in Keys \ init[p].keys :
               /\ settings' = [settings EXCEPT ![k] = IF k \in EnvKeys \/ @ = 0 THEN env ELSE @]
               /\ init' = [init EXCEPT ![p].keys = @ \cup {k}]
      BY <2>2
    <3>2. settings' \in [Keys -> 0..MaxVal] /\ settings'[k] # 0
          /\ \A j \in Keys : settings[j] # 0 => settings'[j] # 0
      BY <3>1, StartupAssumption DEF TypeOK
    <3> DEFINE ks == init[p].keys \cup {k}
    <3>3. init' = [init EXCEPT ![p].at = "seed", ![p].keys = ks]
      <4> DEFINE r == init[p]
                 q == [r EXCEPT !.keys = ks]
      <4>1. r.at = "seed" /\ r \in Process
        BY DEF Seed, TypeOK
      <4>2. q = [r EXCEPT !.at = "seed", !.keys = ks]
        BY <4>1 DEF Process
      <4> QED
        BY <3>1, <4>2
    <3>4. ks \in SUBSET Keys /\ \A j \in ks : settings'[j] # 0
      BY <3>2 DEF TypeOK, Process, Seeded
    <3> QED
      BY <3>2, <3>3, <3>4
  <2> QED
    BY <2>1, <2>2 DEF Seed
<1>2. PICK l \in {"seed", "done"}, ks \in SUBSET Keys :
            /\ init' = [init EXCEPT ![p].at = l, ![p].keys = ks]
            /\ \A k \in ks : settings'[k] # 0
            /\ l = "done" => ks = Keys
  BY <1>1
<1>3. TypeOK'
  <2>1. init' \in [Inits -> Process]
    BY <1>2, ProcessUpdate, StageNames DEF TypeOK
  <2> QED
    BY <1>1, <2>1 DEF TypeOK, Seed, Fixed, world, dbVars
<1>4. MigratedOnce' /\ Bases' /\ Recorded' /\ Passed'
  BY <1>2 DEF TypeOK, Seed, Fixed, world, dbVars, MigratedOnce, Bases, Recorded, Passed, Known
<1>5. Seeded'
  BY <1>1, <1>2 DEF Seeded, TypeOK, Process
<1>6. Names' /\ Imported'
  <2>1. \A q \in Importers' : init'[q] = init[q] /\ q \in Importers
    BY <1>2 DEF Seed, TypeOK, Importers, Importing
  <2>2. \A q \in Live' :
            /\ q \in Live
            /\ init'[q].taken = init[q].taken /\ init'[q].titles = init[q].titles
            /\ init'[q].at = init[q].at \/ {init'[q].at, init[q].at} = {"seed", "done"}
    BY <1>2 DEF Seed, TypeOK, Process, Live
  <2> QED
    BY <2>1, <2>2, CommandsUntouched DEF Seed, Fixed, world
<1> QED
  BY <1>3, <1>4, <1>5, <1>6

LEMMA CrashKeeps ==
    ASSUME IInv, NEW p \in Inits, Crash(p)
    PROVE  IInv'
<1> USE DEF IInv
<1>1. TypeOK'
  <2>1. init' \in [Inits -> Process]
    BY ProcessUpdate, StageNames DEF Crash, To, TypeOK
  <2>2. crashes' \in 0..MaxCrash
    BY StartupAssumption DEF Crash, TypeOK
  <2> QED
    BY <2>1, <2>2 DEF TypeOK, Crash, world, dbVars
<1>2. MigratedOnce' /\ Bases' /\ Recorded' /\ Seeded' /\ Passed'
  BY DEF TypeOK, Crash, To, world, dbVars, MigratedOnce, Bases, Recorded, Seeded, Passed, Known
<1>3. Names' /\ Imported'
  <2>1. \A q \in Importers' \cup Live' : q # p /\ init'[q] = init[q]
    BY DEF TypeOK, Crash, To, Importers, Importing, Live
  <2> QED
    BY <2>1, CommandsUntouched DEF Crash, world, Importers, Importing, Live
<1> QED
  BY <1>1, <1>2, <1>3

LEMMA UpgradeKeeps ==
    ASSUME IInv, Upgrade
    PROVE  IInv'
<1> USE DEF IInv
<1>1. Down \in Process
  BY StartupAssumption DEF Down, Process, Stages
<1>2. TypeOK'
  <2>1. init' \in [Inits -> Process]
    BY <1>1 DEF Upgrade, TypeOK
  <2>2. release' \in 1..MaxRelease /\ env' \in 1..MaxVal
    BY StartupAssumption DEF Upgrade, TypeOK
  <2> QED
    BY <2>1, <2>2 DEF TypeOK, Upgrade, dbVars
<1>3. MigratedOnce' /\ Bases' /\ Recorded' /\ Seeded' /\ Passed'
  BY DEF Upgrade, Down, dbVars, MigratedOnce, Bases, Recorded, Seeded, Passed, Known
<1>4. Names' /\ Imported'
  <2>1. Importers' = {} /\ Live' = {}
    BY DEF Upgrade, Down, Importers, Importing, Live
  <2> QED
    BY <2>1, CommandsUntouched DEF Upgrade
<1> QED
  BY <1>2, <1>3, <1>4

LEMMA SetConfigKeeps ==
    ASSUME IInv, NEW k \in Keys, SetConfig(k)
    PROVE  IInv'
<1> USE DEF IInv
<1>1. settings' \in [Keys -> 0..MaxVal] /\ \A j \in Keys : settings[j] # 0 => settings'[j] # 0
  BY StartupAssumption DEF SetConfig, TypeOK
<1>2. TypeOK'
  BY <1>1, StartupAssumption DEF SetConfig, Edit, TypeOK, world, dbVars
<1>3. MigratedOnce' /\ Bases' /\ Recorded' /\ Passed'
  BY DEF SetConfig, Edit, world, dbVars, MigratedOnce, Bases, Recorded, Passed, Known
<1>4. Seeded'
  <2>1. \A p \in Inits : init[p].keys \subseteq Keys
    BY DEF TypeOK, Process
  <2> QED
    BY <1>1, <2>1 DEF Seeded, SetConfig
<1>5. Names' /\ Imported'
  BY CommandsUntouched DEF SetConfig, Edit, world, Importers, Importing, Live
<1> QED
  BY <1>2, <1>3, <1>4, <1>5
-----------------------------------------------------------------------------
(***************************************************************************)
(* The console's changes of commands: no import counts as alone afterwards *)
(***************************************************************************)

LEMMA EditCommandKeeps ==
    ASSUME IInv, NEW t \in Titles, NEW c \in Command \cup {None}, EditCommand(t, c), removed' \subseteq Titles,
           c # None => c.tool[1] = base[t] /\ \A u \in Present \ {t} : commands[u].tool # c.tool
    PROVE  IInv'
<1> USE DEF IInv
<1>1. \A q \in Inits : LET r == init'[q]
                      IN  /\ r \in Process /\ r.alone = FALSE
                          /\ r.at = init[q].at /\ r.release = init[q].release /\ r.applied = init[q].applied
                          /\ r.taken = init[q].taken /\ r.titles = init[q].titles /\ r.keys = init[q].keys
  <2>1. ASSUME NEW q \in Inits, NEW r, r = [init[q] EXCEPT !.alone = FALSE]
        PROVE  /\ r \in Process /\ r.alone = FALSE
               /\ r.at = init[q].at /\ r.release = init[q].release /\ r.applied = init[q].applied
               /\ r.taken = init[q].taken /\ r.titles = init[q].titles /\ r.keys = init[q].keys
    <3>1. init[q] \in Process
      BY DEF TypeOK
    <3> QED
      BY <2>1, <3>1 DEF Process
  <2> QED
    BY <2>1 DEF EditCommand
<1>2. TypeOK'
  <2>1. init' \in [Inits -> Process]
    BY <1>1 DEF EditCommand
  <2>2. commands' \in [Titles -> Command \cup {None}]
    BY DEF EditCommand, TypeOK
  <2> QED
    BY <2>1, <2>2, StartupAssumption DEF TypeOK, EditCommand, Edit, world, dbVars
<1>3. MigratedOnce' /\ Bases' /\ Recorded' /\ Seeded' /\ Passed'
  BY <1>1 DEF EditCommand, Edit, world, dbVars, MigratedOnce, Bases, Recorded, Seeded, Passed, Known
<1>4. Names'
  <2>1. ASSUME NEW u \in Present', NEW v \in Present', commands'[u].tool = commands'[v].tool
        PROVE  u = v
    <3>1. \A w \in Titles : commands'[w] = IF w = t THEN c ELSE commands[w]
      BY DEF EditCommand, TypeOK
    <3> QED
      BY <2>1, <3>1 DEF Names, Present
  <2>2. \A u \in Present' : commands'[u].tool[1] = base'[u]
    BY DEF EditCommand, Edit, world, TypeOK, Names, Present
  <2> QED
    BY <2>1, <2>2 DEF Names
<1>5. Imported'
  BY <1>1 DEF Imported, Live
<1> QED
  BY <1>2, <1>3, <1>4, <1>5

LEMMA ConsoleKeeps ==
    ASSUME IInv, Console
    PROVE  IInv'
<1>1. ASSUME NEW t \in Titles, CreateCommand(t) PROVE IInv'
  <2> DEFINE c == [tool |-> FreeName(t, Used), by |-> "console"]
  <2>1. FreeName(t, Used) \in ToolNames \ Used /\ FreeName(t, Used)[1] = base[t]
    BY <1>1, FreeNameFrom DEF CreateCommand, IInv, TypeOK
  <2>2. c \in Command /\ c # None
    BY <2>1, StartupAssumption DEF Command
  <2>3. c.tool[1] = base[t] /\ \A u \in Present \ {t} : commands[u].tool # c.tool
    BY <2>1 DEF Used, Present
  <2>4. removed' \subseteq Titles /\ EditCommand(t, c)
    BY <1>1 DEF CreateCommand, IInv, TypeOK
  <2> HIDE DEF c
  <2> QED
    BY <2>2, <2>3, <2>4, EditCommandKeeps
<1>2. ASSUME NEW t \in Titles, UpdateCommand(t) PROVE IInv'
  <2> DEFINE c == [commands[t] EXCEPT !.by = "console"]
  <2>1. commands[t] \in Command /\ t \in Present
    BY <1>2 DEF UpdateCommand, IInv, TypeOK, Present
  <2>2. c \in Command /\ c.tool = commands[t].tool
    BY <2>1 DEF Command
  <2>3. c.tool[1] = base[t] /\ \A u \in Present \ {t} : commands[u].tool # c.tool
    BY <2>1, <2>2 DEF IInv, Names
  <2>4. removed' \subseteq Titles /\ EditCommand(t, c)
    BY <1>2 DEF UpdateCommand, IInv, TypeOK
  <2> HIDE DEF c
  <2> QED
    BY <2>2, <2>3, <2>4, EditCommandKeeps
<1>3. ASSUME NEW t \in Titles, DeleteCommand(t) PROVE IInv'
  BY <1>3, EditCommandKeeps DEF DeleteCommand, IInv, TypeOK
<1> QED
  BY <1>1, <1>2, <1>3, SetConfigKeeps DEF Console
-----------------------------------------------------------------------------
(***************************************************************************)
(* The import                                                              *)
(***************************************************************************)

LEMMA ReadRegistryKeeps ==
    ASSUME IInv, NEW p \in Inits, ReadRegistry(p)
    PROVE  IInv'
<1> USE DEF IInv
<1> DEFINE al == \A q \in Inits : Importing(q) => init[q].alone
           q == init'[p]
<1>1. /\ q \in Process /\ q.at = "import" /\ q.taken = Used /\ q.titles = Present /\ q.alone = al
      /\ q.release = init[p].release /\ q.applied = init[p].applied /\ q.keys = init[p].keys
  <2>1. init[p] \in Process /\ Used \in SUBSET ToolNames /\ Present \in SUBSET Titles /\ "import" \in Stages
    BY UsedNames, StageNames DEF TypeOK, Present
  <2>2. al \in BOOLEAN
    OBVIOUS
  <2>3. q = [init[p] EXCEPT !.at = "import", !.taken = Used, !.titles = Present, !.alone = al]
    BY DEF ReadRegistry, TypeOK
  <2> HIDE DEF q, al
  <2> QED
    BY <2>1, <2>2, <2>3 DEF Process
<1>2. /\ init' \in [Inits -> Process] /\ \A r \in Inits \ {p} : init'[r] = init[r]
  <2>1. q = [init[p] EXCEPT !.at = "import", !.taken = Used, !.titles = Present, !.alone = al]
        /\ init' = [init EXCEPT ![p] = q]
    BY DEF ReadRegistry, TypeOK
  <2> HIDE DEF q
  <2> QED
    BY <1>1, <2>1 DEF TypeOK
<1> HIDE DEF q
<1>3. init[p].at = "registry" /\ UNCHANGED <<commands, settings>> /\ Present' = Present /\ Used' = Used
      /\ \A t \in Titles : First(t)' = First(t)
  BY DEF ReadRegistry, Present, Used, Fixed, world, First
<1>4. TypeOK'
  BY <1>2 DEF TypeOK, ReadRegistry, Fixed, world, dbVars
<1>5. MigratedOnce' /\ Bases' /\ Recorded' /\ Seeded' /\ Passed'
  <2>1. MigratedOnce' /\ Bases'
    BY DEF ReadRegistry, Fixed, world, dbVars, MigratedOnce, Bases
  <2>2. Recorded'
    BY <1>1, <1>2, <1>3 DEF ReadRegistry, Fixed, world, dbVars, Recorded, Known, q
  <2>3. Seeded' /\ Passed'
    BY <1>1, <1>2, <1>3 DEF Seeded, Passed, q
  <2> QED
    BY <2>1, <2>2, <2>3
<1>6. Names'
  BY <1>3 DEF Names, ReadRegistry, Fixed, world
<1>7. ASSUME NEW r \in Live', NEW i \in Importers' PROVE init'[i].alone
  <2>1. \A j \in Inits \ {p} : Importing(j)' = Importing(j)
    BY <1>2 DEF Importing
  <2>2. al
    <3>1. CASE r = p
      BY <1>1, <3>1 DEF Live, q
    <3>2. CASE r # p
      BY <1>2, <3>2 DEF Live, Imported, Importers
    <3> QED
      BY <3>1, <3>2
  <2> QED
    BY <1>1, <1>2, <2>1, <2>2 DEF Importers, q
<1>8. ASSUME NEW r \in Live', r # p
      PROVE  /\ r \in Live /\ NamesHeld(r)' = NamesHeld(r) /\ FirstInUse(r)' = FirstInUse(r)
             /\ FirstTaken(r)' = FirstTaken(r) /\ CustomApart(r)' = CustomApart(r)
             /\ CustomTaken(r)' = CustomTaken(r) /\ \A b \in Titles : InStep(r, b)' = InStep(r, b)
             /\ init'[r] = init[r]
  <2>1. r \in Live /\ init'[r] = init[r]
    BY <1>2, <1>8 DEF Live
  <2>2. base' = base
    BY DEF ReadRegistry, Fixed, world
  <2> QED
    BY <1>3, <2>1, <2>2 DEF NamesHeld, FirstInUse, FirstTaken, CustomApart, CustomTaken, InStep, Full, OfBase, Counted, Titles
<1>9. /\ NamesHeld(p)' /\ FirstInUse(p)' /\ FirstTaken(p)' /\ CustomApart(p)' /\ CustomTaken(p)'
  BY <1>1, <1>3 DEF NamesHeld, FirstInUse, FirstTaken, CustomApart, CustomTaken, Used, Present, Titles, q
<1>10. ASSUME NEW b \in Titles PROVE InStep(p, b)'
  <2> DEFINE new == (OfBase(b) \cap init[p].titles)'
  <2>1. new \in SUBSET Catalog /\ Counted(p, b)' = new
    BY <1>1, <1>3 DEF Counted, OfBase, Used, Present, q
  <2> HIDE DEF new
  <2>2. Cardinality(new) \in Nat
    BY <2>1, StartupAssumption, FS_Subset, FS_CardinalityType
  <2>3. Cardinality(new) <= Cardinality(new)
    BY <2>2
  <2> QED
    BY <2>1, <2>3 DEF new, InStep
<1>11. Imported'
  <2>1. ASSUME NEW r \in Live', r # p
        PROVE  /\ NamesHeld(r)' /\ CustomTaken(r)'
               /\ init'[r].at \in {"import", "custom"} => FirstTaken(r)'
               /\ init'[r].at # "import" => Ready'
               /\ init'[r].at = "import" =>
                   /\ FirstInUse(r)' /\ CustomApart(r)'
                   /\ \A b \in Titles : InStep(r, b)'
    <3>1. Ready' = Ready
      BY <1>3 DEF Ready, Full, ReadRegistry, Fixed, world
    <3> QED
      BY <1>8, <2>1, <3>1 DEF Imported
  <2>2. \A b \in Titles : InStep(p, b)'
    BY <1>10
  <2> QED
    BY <1>1, <1>7, <1>9, <2>1, <2>2 DEF Imported, q
<1> QED
  BY <1>4, <1>5, <1>6, <1>11

\* The name a title of the catalog gets is new to the process unless all numbers are taken, and the
\* title's first name is one it knows afterwards.
LEMMA NameOfTitle ==
    ASSUME IInv, NEW p \in Importers, NEW t \in ToImport(p)
    PROVE  LET K == init[p].taken
               n == NameOf(t, K)
           IN  /\ t \in Titles \ init[p].titles /\ n \in ToolNames /\ n[1] = base[t]
               /\ t \in Catalog => (First(t) \in K \cup {n} /\ (n \in K => \A i \in 1..MaxSuffix : <<base[t], i>> \in K))
               /\ t \in Custom => n = <<t, 1>>
               /\ init[p].at = "import" <=> t \in Catalog
<1> DEFINE K == init[p].taken
<1>1. p \in Inits /\ base \in [Titles -> Titles] /\ init[p].at \in {"import", "custom"}
  BY DEF IInv, TypeOK, Importers, Importing
<1>2. t \in Titles \ init[p].titles /\ (init[p].at = "import" <=> t \in Catalog)
  BY <1>1, StartupAssumption DEF ToImport, Titles
<1>3. CASE t \in Catalog
  <2>1. NameOf(t, K) = FreeName(t, K)
    BY <1>3 DEF NameOf
  <2>2. t \notin Custom
    BY <1>3, StartupAssumption
  <2> HIDE DEF K
  <2> QED
    BY <1>1, <1>2, <1>3, <2>1, <2>2, FreeNameFrom DEF K
<1>4. CASE t \notin Catalog
  <2>1. NameOf(t, K) = <<t, 1>> /\ t \in Custom
    BY <1>2, <1>4 DEF NameOf, Titles
  <2>2. <<t, 1>> \in ToolNames /\ base[t] = t
    BY <1>2, <2>1, StartupAssumption DEF ToolNames, IInv, Bases
  <2> QED
    BY <1>2, <1>4, <2>1, <2>2
<1> QED
  BY <1>3, <1>4

\* What an insertion leaves: the tables but for the title, which is there if it was not and its
\* name was free, and the process knowing both or failed (import_execution_registry).
LEMMA InsertEffect ==
    ASSUME IInv, NEW p \in Importers, NEW t \in Titles, NEW n \in ToolNames, Insert(p, t, n)
    PROVE  /\ init' \in [Inits -> Process] /\ \A r \in Inits \ {p} : init'[r] = init[r]
           /\ LET q == init'[p]
              IN  /\ q.release = init[p].release /\ q.applied = init[p].applied /\ q.keys = init[p].keys
                  /\ q.taken = init[p].taken \cup {n} /\ q.titles = init[p].titles \cup {t}
                  /\ q.alone = init[p].alone
                  /\ q.at = IF t \in Present /\ n \notin Used THEN "dead" ELSE init[p].at
           /\ commands' \in [Titles -> Command \cup {None}]
           /\ \A u \in Titles \ {t} : commands'[u] = commands[u]
           /\ t \in Present \/ n \in Used => commands' = commands
           /\ t \notin Present /\ n \notin Used => t \in Present' /\ commands'[t].tool = n
<1> DEFINE T == init[p].titles \cup {t}
           K == init[p].taken \cup {n}
           l == IF commands[t] # None /\ n \notin Used THEN "dead" ELSE init[p].at
           q == [init[p] EXCEPT !.titles = T, !.taken = K, !.at = l]
           c == [tool |-> n, by |-> "migrate"]
<1>1. init[p] \in Process /\ p \in Inits /\ init \in [Inits -> Process] /\ commands \in [Titles -> Command \cup {None}]
  BY DEF IInv, TypeOK, Importers
<1>2. T \in SUBSET Titles /\ K \in SUBSET ToolNames /\ l \in Stages
  <2>1. init[p].titles \in SUBSET Titles /\ init[p].taken \in SUBSET ToolNames /\ init[p].at \in Stages
    BY <1>1 DEF Process
  <2> QED
    BY <2>1, StageNames
<1>3. init' = [init EXCEPT ![p] = q]
  BY <1>1 DEF Insert, SkipKnown
<1>4. /\ q \in Process
      /\ q.release = init[p].release /\ q.applied = init[p].applied /\ q.keys = init[p].keys
      /\ q.taken = K /\ q.titles = T /\ q.alone = init[p].alone /\ q.at = l
  <2> HIDE DEF T, K, l
  <2> QED
    BY <1>1, <1>2 DEF Process
<1> HIDE DEF q
<1>5. init'[p] = q /\ init' \in [Inits -> Process] /\ \A r \in Inits \ {p} : init'[r] = init[r]
  BY <1>1, <1>3, <1>4
<1>6. c \in Command /\ c # None /\ c.tool = n
  BY StartupAssumption DEF Command
<1> HIDE DEF c
<1>7. commands' = IF commands[t] # None \/ n \in Used THEN commands ELSE [commands EXCEPT ![t] = c]
  BY DEF Insert, SkipKnown, c
<1>8. t \in Present <=> commands[t] # None
  BY DEF Present
<1>9. /\ commands' \in [Titles -> Command \cup {None}]
      /\ \A u \in Titles \ {t} : commands'[u] = commands[u]
      /\ t \in Present \/ n \in Used => commands' = commands
      /\ t \notin Present /\ n \notin Used => t \in Present' /\ commands'[t].tool = n
  BY <1>1, <1>6, <1>7, <1>8 DEF Present
<1> QED
  BY <1>4, <1>5, <1>8, <1>9

\* The import's insertion.  If nobody but imports has changed commands, a name the process skips
\* belongs to another title of the catalog (CustomApart), so for each base with a number left names
\* known and titles done stay in step (InStep); and a custom command can only come by another import when all titles of the
\* catalog that want its name are there (FirstInUse).
LEMMA InsertKeeps ==
    ASSUME IInv, NEW p \in Importers, NEW t \in ToImport(p), Insert(p, t, NameOf(t, init[p].taken)),
           Fixed, UNCHANGED <<dbVars, settings>>
    PROVE  IInv'
<1> USE DEF IInv
<1> DEFINE K == init[p].taken
           T == init[p].titles
           n == NameOf(t, K)
           failed == t \in Present /\ n \notin Used
<1>1. /\ t \in Titles \ T /\ n \in ToolNames /\ n[1] = base[t]
      /\ t \in Catalog => (First(t) \in K \cup {n} /\ (n \in K => \A i \in 1..MaxSuffix : <<base[t], i>> \in K))
      /\ t \in Custom => n = <<t, 1>>
      /\ init[p].at = "import" <=> t \in Catalog
  BY NameOfTitle
<1>2. p \in Inits /\ init[p].at \in {"import", "custom"}
  BY DEF Importers, Importing
<1> HIDE DEF n
<1>3. /\ init' \in [Inits -> Process] /\ \A r \in Inits \ {p} : init'[r] = init[r]
      /\ init'[p].release = init[p].release /\ init'[p].applied = init[p].applied /\ init'[p].keys = init[p].keys
      /\ init'[p].taken = K \cup {n} /\ init'[p].titles = T \cup {t}
      /\ init'[p].alone = init[p].alone
      /\ init'[p].at = IF failed THEN "dead" ELSE init[p].at
  BY <1>1, InsertEffect DEF n
<1>4. /\ commands' \in [Titles -> Command \cup {None}]
      /\ \A u \in Titles \ {t} : commands'[u] = commands[u]
      /\ t \in Present \/ n \in Used => commands' = commands
      /\ t \notin Present /\ n \notin Used => t \in Present' /\ commands'[t].tool = n
  BY <1>1, InsertEffect DEF n
<1> HIDE DEF K, T, failed
<1>5. base' = base /\ \A u \in Titles : First(u)' = First(u)
  BY DEF Fixed, world, First
<1>6. /\ Present \subseteq Present' /\ Present' \subseteq Present \cup {t}
      /\ \A u \in Present : commands'[u] = commands[u]
      /\ Used \subseteq Used' /\ (~ failed => n \in Used')
      /\ t \in Present' \ Present => n \notin Used /\ commands'[t].tool = n
  BY <1>1, <1>4 DEF Present, Used, failed
<1>7. \A r \in Live : /\ r \in Inits /\ init[r].titles \subseteq init'[r].titles
                       /\ init[r].taken \subseteq init'[r].taken /\ (r # p => init'[r] = init[r])
  BY <1>3 DEF Live, K, T
<1>8. TypeOK'
  BY <1>3, <1>4 DEF TypeOK, Fixed, world, dbVars
<1>9. MigratedOnce' /\ Bases' /\ Recorded' /\ Seeded' /\ Passed'
  <2>1. MigratedOnce' /\ Bases'
    BY DEF Fixed, world, dbVars, MigratedOnce, Bases
  <2>2. Recorded'
    BY <1>2, <1>3 DEF Fixed, world, dbVars, Recorded, Known
  <2>3. Seeded'
    BY <1>2, <1>3 DEF Seeded
  <2>4. Passed'
    BY <1>2, <1>3 DEF Passed, T
  <2> QED
    BY <2>1, <2>2, <2>3, <2>4
<1>10. Names'
  <2>1. ASSUME NEW u \in Present', NEW v \in Present', commands'[u].tool = commands'[v].tool
        PROVE  u = v
    <3>1. \A w \in Present : commands[w].tool \in Used
      BY DEF Present, Used
    <3>2. CASE u \in Present /\ v \in Present
      BY <1>6, <2>1, <3>2 DEF Names
    <3>3. CASE u \notin Present \/ v \notin Present
      <4>1. t \in Present' \ Present /\ n \notin Used /\ commands'[t].tool = n
        BY <1>6, <3>3
      <4>2. \A w \in Present : commands'[w].tool # n
        BY <1>6, <3>1, <4>1
      <4> QED
        BY <1>6, <2>1, <3>3, <4>1, <4>2
    <3> QED
      BY <3>2, <3>3
  <2>2. \A u \in Present' : commands'[u].tool[1] = base'[u]
    BY <1>1, <1>5, <1>6 DEF Names
  <2> QED
    BY <2>1, <2>2 DEF Names
<1>11. CASE Live = {} \/ failed
  <2>1. CASE Live = {}
    <3>1. Live' = {}
      BY <1>2, <1>3, <2>1 DEF Live
    <3> QED
      BY <1>8, <1>9, <1>10, <3>1 DEF Imported
  <2>2. CASE failed
    <3>1. commands' = commands
      BY <1>4, <2>2 DEF failed
    <3>2. \A q \in Importers' \cup Live' : q # p /\ init'[q] = init[q]
      BY <1>3, <2>2 DEF Importers, Importing, Live
    <3> QED
      BY <1>5, <1>8, <1>9, <3>1, <3>2, CommandsUntouched DEF Importers, Importing, Live
  <2> QED
    BY <1>11, <2>1, <2>2
<1>12. CASE Live # {} /\ ~ failed
  <2>1. p \in Live /\ \A q \in Importers : init[q].alone
    BY <1>2, <1>12 DEF Imported, Live
  <2>2. Live' = Live /\ Importers' = Importers /\ \A q \in Inits : init'[q].alone = init[q].alone
        /\ init'[q].at = init[q].at
    BY <1>2, <1>3, <1>12 DEF Live, Importers, Importing
  <2>3. NamesHeld(p) /\ CustomTaken(p) /\ FirstTaken(p) /\ n \in Used'
    BY <1>2, <1>6, <1>12, <2>1 DEF Imported
  <2>4. ASSUME NEW r \in Live PROVE NamesHeld(r)' /\ CustomTaken(r)'
    <3>1. NamesHeld(r) /\ CustomTaken(r) /\ r \in Inits
      BY <2>4 DEF Imported, Live
    <3>2. CASE r # p
      BY <1>6, <1>7, <3>1, <3>2 DEF NamesHeld, CustomTaken
    <3>3. CASE r = p
      BY <1>1, <1>3, <1>6, <2>3, <3>3 DEF NamesHeld, CustomTaken, K, T
    <3> QED
      BY <3>2, <3>3
  <2>5. ASSUME NEW r \in Live, init[r].at \in {"import", "custom"} PROVE FirstTaken(r)'
    <3>1. FirstTaken(r) /\ \A u \in Catalog : First(u)' = First(u)
      BY <1>5, <2>5 DEF Imported, Titles
    <3>2. CASE r # p
      BY <1>6, <1>7, <3>1, <3>2 DEF FirstTaken
    <3>3. CASE r = p
      BY <1>1, <1>3, <1>6, <3>1, <3>3 DEF FirstTaken, K, T
    <3> QED
      BY <3>2, <3>3
  <2>6. ASSUME NEW r \in Live, init[r].at = "import" PROVE FirstInUse(r)'
    <3>1. FirstInUse(r) /\ NamesHeld(p)
      BY <2>3, <2>6 DEF Imported
    <3>2. init[r].titles \subseteq init'[r].titles
      BY <1>7
    <3>3. ASSUME NEW u \in (Catalog \cap Present') \ init'[r].titles PROVE First(u) \in Used'
      <4>1. CASE u \in Present
        BY <1>6, <3>1, <3>2, <4>1 DEF FirstInUse
      <4>2. CASE u \notin Present
        <5>1. u = t
          BY <1>6, <4>2
        <5> QED
          BY <1>1, <1>6, <2>3, <3>1, <5>1 DEF NamesHeld, K
      <4> QED
        BY <4>1, <4>2
    <3> QED
      BY <1>5, <3>3 DEF FirstInUse, Titles
  <2>7. ASSUME NEW r \in Live, init[r].at = "import" PROVE CustomApart(r)'
    <3>1. FirstInUse(r) /\ CustomApart(r)
      BY <2>7 DEF Imported
    <3>2. init[r].titles \subseteq init'[r].titles /\ init[r].taken \subseteq init'[r].taken
      BY <1>7
    <3>3. ASSUME NEW h \in Custom \cap Present', commands'[h].tool \notin init'[r].taken
          PROVE  commands'[h].tool = <<h, 1>> /\ \A u \in Catalog \ init'[r].titles : base[u] # h
      <4>1. CASE h \in Present
        BY <1>6, <3>1, <3>2, <3>3, <4>1 DEF CustomApart
      <4>2. CASE h \notin Present
        <5>1. h = t /\ n \notin Used /\ commands'[t].tool = n
          BY <1>6, <4>2
        <5>2. n = <<h, 1>> /\ h \notin Catalog /\ Catalog \subseteq T
          BY <1>1, <1>2, <5>1, StartupAssumption DEF Passed, T
        <5>3. ASSUME NEW u \in Catalog \ init'[r].titles, base[u] = h PROVE FALSE
          <6>1. First(u) = n
            BY <5>2, <5>3 DEF First
          <6>2. u \in Present
            BY <2>3, <5>1, <5>2, <6>1 DEF FirstTaken, NamesHeld, T
          <6> QED
            BY <3>1, <3>2, <5>1, <6>1, <6>2 DEF FirstInUse
        <5> QED
          BY <5>1, <5>2, <5>3
      <4> QED
        BY <4>1, <4>2
    <3> QED
      BY <1>5, <3>3 DEF CustomApart
  <2>11. \A b : Full(b) => Full(b)'
    BY <1>6 DEF Full
  <2>8. ASSUME NEW r \in Live, init[r].at = "import", NEW b \in Titles PROVE InStep(r, b)'
    <3> SUFFICES ASSUME ~Full(b)' PROVE InStep(r, b)'
      BY DEF InStep
    <3>0. OfBase(b)' = OfBase(b) /\ ~Full(b)
      BY <1>5, <2>11 DEF OfBase
    <3>1. Cardinality(OfBase(b) \cap init[r].titles) <= Cardinality(Counted(r, b))
      BY <2>8, <3>0 DEF Imported, InStep
    <3>2. Counted(r, b) \subseteq Counted(r, b)' /\ IsFiniteSet(Counted(r, b)') /\ IsFiniteSet(Counted(r, b))
          /\ IsFiniteSet(OfBase(b) \cap init[r].titles)
      <4>1. Counted(r, b) \subseteq Counted(r, b)'
        BY <1>6, <1>7, <3>0 DEF Counted
      <4>2. OfBase(b) \subseteq Catalog
        BY DEF OfBase
      <4> QED
        BY <3>0, <4>1, <4>2, StartupAssumption, FS_Subset DEF Counted
    <3>3. /\ Cardinality(Counted(r, b)) \in Nat /\ Cardinality(Counted(r, b)') \in Nat
          /\ Cardinality(OfBase(b) \cap init[r].titles) \in Nat
          /\ Cardinality(Counted(r, b)) <= Cardinality(Counted(r, b)')
      BY <3>2, FS_CardinalityType, FS_Subset
    <3>4. CASE OfBase(b) \cap init'[r].titles = OfBase(b) \cap init[r].titles
      <4> DEFINE old == Cardinality(OfBase(b) \cap init[r].titles)
                 before == Cardinality(Counted(r, b))
                 after == Cardinality(Counted(r, b)')
      <4>2. old <= before /\ before <= after /\ old \in Nat /\ before \in Nat /\ after \in Nat
        BY <3>1, <3>3
      <4> HIDE DEF old, before, after
      <4>3. old <= after
        BY <4>2
      <4>4. Cardinality(OfBase(b)' \cap init'[r].titles) <= Cardinality(Counted(r, b)')
        BY <3>0, <3>4, <4>3 DEF old, after
      <4> QED
        BY <4>4 DEF InStep
    <3>5. CASE OfBase(b) \cap init'[r].titles # OfBase(b) \cap init[r].titles
      <4>0. r = p /\ base[t] = b
        <5>1. r = p
          BY <1>7, <3>5
        <5> QED
          BY <1>3, <3>5, <5>1 DEF OfBase, T
      <4>1. t \in Catalog /\ CustomApart(p) /\ init'[p].taken = K \cup {n} /\ n \notin K
        <5>1. t \in Catalog /\ CustomApart(p) /\ init'[p].taken = K \cup {n}
          BY <1>1, <1>3, <2>8, <4>0 DEF Imported
        <5>2. n \in K => Full(b)
          BY <1>1, <2>3, <4>0, <5>1 DEF Full, NamesHeld, K
        <5> QED
          BY <3>0, <5>1, <5>2
      <4>2. PICK x \in Present' : commands'[x].tool = n
        BY <2>3 DEF Used, Present
      <4>3. x \in Catalog
        <5>1. CASE x = t
          BY <4>1, <5>1
        <5>2. CASE x # t
          <6>1. x \in Present /\ commands[x].tool = n
            BY <1>6, <4>2, <5>2
          <6>2. ASSUME x \in Custom PROVE FALSE
            BY <1>1, <4>1, <6>1, <6>2 DEF CustomApart, K, T
          <6> QED
            BY <6>1, <6>2 DEF Present, Titles
        <5> QED
          BY <5>1, <5>2
      <4>11. x \in OfBase(b)
        BY <1>1, <1>5, <1>10, <4>0, <4>2, <4>3 DEF Names, OfBase
      <4>4. x \notin Counted(p, b) /\ Counted(p, b) \cup {x} \subseteq Counted(p, b)'
        <5>1. x \notin Counted(p, b)
          BY <1>6, <4>1, <4>2 DEF Counted, K
        <5>2. x \in Counted(p, b)'
          BY <3>0, <4>1, <4>2, <4>11 DEF Counted
        <5> QED
          BY <3>2, <4>0, <5>1, <5>2
      <4>5. Cardinality(Counted(p, b)) + 1 <= Cardinality(Counted(p, b)')
        <5>1. Cardinality(Counted(p, b) \cup {x}) = Cardinality(Counted(p, b)) + 1
          BY <3>2, <4>0, <4>4, FS_AddElement
        <5>2. Cardinality(Counted(p, b) \cup {x}) <= Cardinality(Counted(p, b)')
          BY <3>2, <4>0, <4>4, FS_Subset
        <5> QED
          BY <5>1, <5>2
      <4>6. Cardinality(OfBase(b) \cap (T \cup {t})) = Cardinality(OfBase(b) \cap T) + 1
        <5>1. OfBase(b) \cap (T \cup {t}) = (OfBase(b) \cap T) \cup {t} /\ t \notin OfBase(b) \cap T
          BY <1>1, <4>0, <4>1 DEF OfBase
        <5>2. IsFiniteSet(OfBase(b) \cap T)
          BY <3>2, <4>0 DEF T
        <5> QED
          BY <5>1, <5>2, FS_AddElement
      <4>7. Cardinality(OfBase(b) \cap T) <= Cardinality(Counted(p, b)) /\ Cardinality(OfBase(b) \cap T) \in Nat
        BY <3>1, <3>3, <4>0 DEF T
      <4>8. OfBase(b)' \cap init'[r].titles = OfBase(b) \cap (T \cup {t})
        BY <1>3, <3>0, <4>0
      <4> DEFINE old == Cardinality(OfBase(b) \cap T)
                 new == Cardinality(OfBase(b) \cap (T \cup {t}))
                 before == Cardinality(Counted(p, b))
                 after == Cardinality(Counted(p, b)')
      <4>9. old <= before /\ before + 1 <= after /\ new = old + 1 /\ old \in Nat /\ before \in Nat /\ after \in Nat
        BY <3>3, <4>0, <4>5, <4>6, <4>7
      <4> HIDE DEF old, new, before, after
      <4>10. new <= after
        BY <4>9
      <4>12. Cardinality(OfBase(b)' \cap init'[r].titles) <= Cardinality(Counted(r, b)')
        BY <4>0, <4>8, <4>10 DEF new, after
      <4> QED
        BY <4>12 DEF InStep
    <3> QED
      BY <3>4, <3>5
  <2>9. ASSUME NEW r \in Live, init[r].at # "import" PROVE Ready'
    <3>1. Ready
      BY <2>9 DEF Imported
    <3> QED
      BY <1>5, <1>6, <2>11, <3>1 DEF Ready
  <2>10. Imported'
    <3>1. \A r \in Live : r \in Inits /\ init'[r].at = init[r].at
      BY <2>2 DEF Live
    <3>2. \A r \in Live : \A q \in Importers : init'[q].alone
      BY <2>1, <2>2 DEF Importers
    <3> QED
      BY <2>2, <2>4, <2>5, <2>6, <2>7, <2>8, <2>9, <3>1, <3>2 DEF Imported
  <2> QED
    BY <1>8, <1>9, <1>10, <2>10
<1> QED
  BY <1>11, <1>12

\* When it has done with the catalog, as many of the titles with one base are there as it has done,
\* all, unless the numbers to the base are used up.
LEMMA PhaseKeeps ==
    ASSUME IInv, NEW p \in Importers, ToImport(p) = {}, NEW l \in {"custom", "seed"} \ {init[p].at}, To(p, l),
           Fixed, UNCHANGED <<dbVars, settings, commands>>
    PROVE  IInv'
<1> USE DEF IInv
<1>1. /\ p \in Inits /\ init[p].at \in {"import", "custom"} /\ init[p] \in Process
      /\ Catalog \subseteq init[p].titles
  BY DEF Importers, Importing, TypeOK, ToImport, Passed
<1>2. /\ init' \in [Inits -> Process] /\ \A r \in Inits \ {p} : init'[r] = init[r]
      /\ LET q == init'[p]
         IN  /\ q.at = l /\ q.release = init[p].release /\ q.applied = init[p].applied /\ q.keys = init[p].keys
             /\ q.taken = init[p].taken /\ q.titles = init[p].titles /\ q.alone = init[p].alone
  <2> DEFINE q == [init[p] EXCEPT !.at = l]
  <2>1. init' = [init EXCEPT ![p] = q]
    BY DEF To, TypeOK
  <2>2. q \in Process
    BY <1>1, ProcessUpdate, StageNames
  <2>3. /\ q.at = l /\ q.release = init[p].release /\ q.applied = init[p].applied /\ q.keys = init[p].keys
        /\ q.taken = init[p].taken /\ q.titles = init[p].titles /\ q.alone = init[p].alone
    BY <1>1 DEF Process
  <2> HIDE DEF q
  <2> QED
    BY <1>1, <2>1, <2>2, <2>3 DEF TypeOK
<1>3. TypeOK'
  BY <1>2 DEF TypeOK, Fixed, world, dbVars
<1>4. MigratedOnce' /\ Bases' /\ Recorded' /\ Seeded' /\ Passed'
  <2>1. MigratedOnce' /\ Bases'
    BY DEF Fixed, world, dbVars, MigratedOnce, Bases
  <2>2. Recorded'
    BY <1>1, <1>2 DEF Fixed, world, dbVars, Recorded, Known
  <2>3. Seeded' /\ Passed'
    BY <1>1, <1>2 DEF Seeded, Passed
  <2> QED
    BY <2>1, <2>2, <2>3
<1>5. Present' = Present /\ Used' = Used /\ \A t \in Titles : First(t)' = First(t)
  BY DEF Present, Used, First, Fixed, world
<1>6. Names'
  BY <1>5 DEF Names, Fixed, world
<1>7. p \in Live => Ready
  <2>1. CASE init[p].at = "custom"
    BY <2>1 DEF Imported
  <2>2. CASE init[p].at = "import"
    <3> SUFFICES ASSUME p \in Live, NEW t \in Catalog, ~Full(base[t]) PROVE t \in Present
      BY DEF Ready
    <3> DEFINE b == base[t]
               all == OfBase(b)
               there == Counted(p, b)
    <3>1. b \in Titles /\ t \in all /\ all \in SUBSET Catalog /\ there \in SUBSET all /\ there \subseteq Present
      BY DEF OfBase, Counted, TypeOK, Titles
    <3>2. all \cap init[p].titles = all
      BY <1>1, <3>1
    <3>3. Cardinality(all) <= Cardinality(there)
      BY <2>2, <3>1, <3>2 DEF Imported, InStep
    <3> HIDE DEF b, all, there
    <3>4. IsFiniteSet(all) /\ IsFiniteSet(there)
      BY <3>1, StartupAssumption, FS_Subset
    <3>5. Cardinality(there) <= Cardinality(all) /\ Cardinality(all) \in Nat /\ Cardinality(there) \in Nat
      BY <3>1, <3>4, FS_Subset, FS_CardinalityType
    <3>6. Cardinality(there) = Cardinality(all)
      BY <3>3, <3>5
    <3>7. there = all
      BY <3>1, <3>4, <3>6, FS_Subset
    <3> QED
      BY <3>1, <3>7
  <2> QED
    BY <1>1, <2>1, <2>2
<1>8. ASSUME NEW r \in Live'
      PROVE  /\ r \in Live /\ NamesHeld(r)' = NamesHeld(r) /\ FirstInUse(r)' = FirstInUse(r)
             /\ FirstTaken(r)' = FirstTaken(r) /\ CustomApart(r)' = CustomApart(r)
             /\ CustomTaken(r)' = CustomTaken(r) /\ \A b \in Titles : InStep(r, b)' = InStep(r, b)
             /\ init'[r].titles = init[r].titles /\ (r # p => init'[r].at = init[r].at)
  <2>1. /\ r \in Live /\ init'[r].titles = init[r].titles /\ init'[r].taken = init[r].taken
        /\ r # p => init'[r].at = init[r].at
    BY <1>1, <1>2, <1>8 DEF Live
  <2>2. base' = base /\ commands' = commands
    BY DEF Fixed, world
  <2> QED
    BY <1>5, <2>1, <2>2 DEF NamesHeld, FirstInUse, FirstTaken, CustomApart, CustomTaken, InStep, Full, OfBase, Counted, Titles
<1>9. Imported'
  <2>1. \A r \in Live', q \in Importers' : init'[q].alone
    BY <1>1, <1>2, <1>8 DEF Imported, Importers, Importing
  <2>2. ASSUME NEW r \in Live'
        PROVE  /\ NamesHeld(r)' /\ CustomTaken(r)'
               /\ init'[r].at \in {"import", "custom"} => FirstTaken(r)'
               /\ init'[r].at # "import" => Ready'
               /\ init'[r].at = "import" =>
                   /\ FirstInUse(r)' /\ CustomApart(r)'
                   /\ \A b \in Titles : InStep(r, b)'
    <3>1. Ready' = Ready
      BY <1>5 DEF Ready, Full, Fixed, world
    <3> QED
      BY <1>1, <1>2, <1>7, <1>8, <2>2, <3>1 DEF Imported
  <2> QED
    BY <2>1, <2>2 DEF Imported
<1> QED
  BY <1>3, <1>4, <1>6, <1>9
-----------------------------------------------------------------------------
(***************************************************************************)
(* The theorems                                                            *)
(***************************************************************************)

LEMMA InitEstablishes == Init => IInv
<1> SUFFICES ASSUME Init PROVE IInv
  OBVIOUS
<1>1. Down \in Process
  BY StartupAssumption DEF Down, Process, Stages
<1>2. TypeOK
  <2>1. release \in 1..MaxRelease /\ env \in 1..MaxVal /\ edits \in 0..MaxEdits /\ crashes \in 0..MaxCrash
    BY StartupAssumption DEF Init
  <2>2. settings \in [Keys -> 0..MaxVal] /\ ran \in [Vers -> Nat]
    BY StartupAssumption DEF Init
  <2>3. commands \in [Titles -> Command \cup {None}] /\ init \in [Inits -> Process]
    BY <1>1 DEF Init
  <2> QED
    BY <2>1, <2>2, <2>3 DEF Init, TypeOK
<1>3. Importers = {} /\ Live = {} /\ Present = {}
  BY DEF Init, Down, Importers, Importing, Live, Present
<1>4. MigratedOnce /\ Recorded /\ Seeded /\ Passed /\ Bases
  BY DEF Init, Down, MigratedOnce, Recorded, Seeded, Passed, Bases
<1> QED
  BY <1>2, <1>3, <1>4 DEF IInv, Names, Imported

LEMMA NextKeeps == IInv /\ [Next]_vars => IInv'
<1> SUFFICES ASSUME IInv, [Next]_vars PROVE IInv'
  OBVIOUS
<1>1. ASSUME NEW p \in Inits, Import(p) PROVE IInv'
  BY <1>1, InsertKeeps, PhaseKeeps DEF Import, Importers
<1>2. ASSUME NEW p \in Inits, Step(p) PROVE IInv'
  BY <1>1, <1>2, EnsureDatabasesKeeps, ReadAppliedKeeps, ApplyKeeps, ReadRegistryKeeps, SeedKeeps DEF Step
<1>3. CASE UNCHANGED vars
  <2>1. UNCHANGED <<release, since, base, env, exists, ran, recorded, commands, settings, init, edits, crashes, removed>>
    BY <1>3 DEF vars, world, dbVars
  <2>2. TypeOK' /\ MigratedOnce' /\ Recorded' /\ Seeded' /\ Passed' /\ Bases'
    BY <2>1 DEF IInv, TypeOK, MigratedOnce, Recorded, Seeded, Passed, Bases, Known
  <2>3. Names' /\ Imported'
    BY <2>1, CommandsUntouched DEF IInv, Importers, Importing, Live
  <2> QED
    BY <2>2, <2>3 DEF IInv
<1> QED
  BY <1>2, <1>3, StartKeeps, CrashKeeps, UpgradeKeeps, ConsoleKeeps DEF Next

\* The inductive invariant holds in every state the program can reach.
THEOREM Invariance == Spec => []IInv
<1> QED
  BY InitEstablishes, NextKeeps, PTL DEF Spec

\* Every variable keeps its type.
THEOREM TypeCorrect == Spec => []TypeOK
<1>1. IInv => TypeOK
  BY DEF IInv
<1> QED
  BY <1>1, Invariance, PTL

\* A migration takes effect exactly once and is recorded with it, however many db-inits overlap,
\* stop and are started again, whatever version numbers a later release brings.
THEOREM MigratedExactlyOnce == Spec => []MigratedOnce
<1>1. IInv => MigratedOnce
  BY DEF IInv
<1> QED
  BY <1>1, Invariance, PTL

\* A db-init that ends well leaves everything ready, with any number of db-inits beside it: a
\* command of the catalog is lost only when all names with a number are in use, since the name with
\* a hash may be another's, and a custom one only to a present command with its name.
THEOREM DoneReady == Spec => []DoneMeansReady
<1>1. ASSUME IInv, NEW p \in Inits, init[p].at = "done"
      PROVE  /\ Known(init[p].release) \subseteq recorded
             /\ \A k \in Keys : settings[k] # 0
             /\ Catalog \subseteq init[p].titles
  BY <1>1 DEF IInv, Recorded, Seeded, Passed
<1>2. ASSUME IInv, NEW p \in Inits, init[p].at = "done", init[p].alone, NEW t \in init[p].titles \ Present
      PROVE  \/ t \in Custom  /\ <<t, 1>> \in Used
             \/ t \in Catalog /\ \A i \in 1..MaxSuffix : <<base[t], i>> \in Used
  <2>1. p \in Live /\ t \in Titles
    BY <1>2 DEF Live, IInv, TypeOK, Process
  <2>2. NamesHeld(p) /\ CustomTaken(p) /\ Ready
    BY <1>2, <2>1 DEF IInv, Imported
  <2>3. CASE t \in Custom
    BY <1>2, <2>2, <2>3 DEF NamesHeld, CustomTaken
  <2>4. CASE t \in Catalog
    BY <1>2, <2>2, <2>4 DEF Ready, Full
  <2> QED
    BY <2>1, <2>3, <2>4 DEF Titles
<1>3. IInv => DoneMeansReady
  BY <1>1, <1>2 DEF DoneMeansReady
<1> QED
  BY <1>3, Invariance, PTL

\* No step of a db-init changes a command that is there, or a free setting that has a value.
THEOREM ConsoleKeptAlways == Spec => ConsoleKept
<1> DEFINE Kept(p) == /\ \A t \in Titles : commands[t] # None => commands'[t] = commands[t]
                      /\ \A k \in FreeKeys : settings[k] # 0 => settings'[k] = settings[k]
<1>1. ASSUME TypeOK, NEW p \in Inits, Step(p) PROVE Kept(p)
  <2>1. CASE EnsureDatabases(p) \/ ReadApplied(p) \/ Apply(p) \/ ReadRegistry(p)
    BY <2>1 DEF EnsureDatabases, ReadApplied, Apply, ReadRegistry
  <2>2. CASE Import(p)
    <3>1. UNCHANGED settings /\ (commands' = commands \/ \E t \in ToImport(p) : Insert(p, t, NameOf(t, init[p].taken)))
      BY <2>2 DEF Import
    <3> QED
      BY <1>1, <3>1 DEF Insert, SkipKnown, TypeOK
  <2>3. CASE Seed(p)
    <3>1. UNCHANGED commands /\ (settings' = settings \/ \E k \in Keys :
            settings' = [settings EXCEPT ![k] = IF k \in EnvKeys \/ @ = 0 THEN env ELSE @])
      BY <2>3 DEF Seed
    <3> QED
      BY <1>1, <3>1, StartupAssumption DEF TypeOK, Keys
  <2> QED
    BY <1>1, <2>1, <2>2, <2>3 DEF Step
<1>2. TypeOK => \A p \in Inits : Step(p) => Kept(p)
  BY <1>1
<1> QED
  BY <1>2, TypeCorrect, PTL DEF ConsoleKept
=============================================================================
