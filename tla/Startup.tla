------------------------------- MODULE Startup -------------------------------
(***************************************************************************)
(* db-init (src/shared/migrations.py): the one-shot container that runs    *)
(* before every service.  It creates the databases, applies the migrations *)
(* not yet recorded in schema_migrations, imports the commands of the two  *)
(* older servers into execution_commands and seeds platform_settings.  It  *)
(* may stop anywhere and be started again, by a later release too, and two *)
(* of them, and the console of a running installation, may overlap.        *)
(*                                                                         *)
(* One database stands for all (they are handled one after the other and   *)
(* share nothing).  A name is a pair of a base and a number.               *)
(***************************************************************************)
EXTENDS Naturals, FiniteSets, Sequences

CONSTANTS
    Inits,      \* db-init processes
    Vers,       \* the versions in MIGRATIONS
    MaxRelease, \* bound on the releases of the program
    Catalog,    \* titles in command_catalog
    Custom,     \* names in system_custom_commands
    MaxSuffix,  \* numbers tool_name_for tries before it takes the hash of the title (99)
    Hash,       \* title -> the number that stands for its hash; two titles may have the same
    EnvKeys,    \* settings with force: their values come from the environment
    FreeKeys,   \* settings the administrators own
    MaxVal,     \* bound on the values of a setting
    MaxEdits,   \* bound on the administrators' changes
    MaxCrash,   \* bound on the crashes of db-init
    None

Titles    == Catalog \cup Custom
ToolNames == Titles \X (1..MaxSuffix \cup {Hash[t] : t \in Titles})
Command   == [tool : ToolNames, by : {"migrate", "console"}]
Keys      == EnvKeys \cup FreeKeys

ASSUME StartupAssumption ==
    /\ Vers \subseteq Nat /\ {MaxRelease, MaxVal} \subseteq Nat \ {0}
    /\ {MaxEdits, MaxCrash} \subseteq Nat
    /\ MaxSuffix \in Nat \ {0} /\ Hash \in [Titles -> Nat] /\ \A t \in Titles : Hash[t] > MaxSuffix
    /\ IsFiniteSet(Catalog)    \* the rows of a table
    /\ Catalog \cap Custom = {} /\ EnvKeys \cap FreeKeys = {} /\ None \notin Command

VARIABLES
    release,    \* the release installed
    since,      \* the release each version came with
    base,       \* the name tool_name_for would first give to a title
    exists,     \* the database is there
    ran,        \* how often the SQL of a version took effect
    recorded,   \* schema_migrations
    commands,   \* execution_commands, by title
    settings,   \* platform_settings; 0: no such row
    env,        \* the value the environment gives now
    init,       \* the db-init processes; alone: since it read the registry no administrator changed a
                \* command, and no import was running then that one had already come between
    edits, crashes,
    removed     \* history: titles an administrator deleted

world == <<release, since, base, env>>
dbVars == <<exists, ran, recorded>>
vars  == <<world, dbVars, commands, settings, init, edits, crashes, removed>>
-----------------------------------------------------------------------------
Stages    == {"down", "databases", "creating", "schema", "apply", "registry", "import", "custom", "seed", "done", "dead"}
Process   == [at : Stages, release : 0..MaxRelease, applied : SUBSET Vers, taken : SUBSET ToolNames,
              titles : SUBSET Titles, keys : SUBSET Keys, alone : BOOLEAN]
Down      == [at |-> "down", release |-> 0, applied |-> {}, taken |-> {}, titles |-> {}, keys |-> {}, alone |-> FALSE]

TypeOK ==
    /\ release \in 1..MaxRelease /\ since \in [Vers -> 1..MaxRelease]
    /\ base \in [Titles -> Titles] /\ env \in 1..MaxVal
    /\ exists \in BOOLEAN /\ ran \in [Vers -> Nat] /\ recorded \subseteq Vers
    /\ commands \in [Titles -> Command \cup {None}]
    /\ settings \in [Keys -> 0..MaxVal]
    /\ init \in [Inits -> Process]
    /\ edits \in 0..MaxEdits /\ crashes \in 0..MaxCrash /\ removed \subseteq Titles

Known(r)   == {v \in Vers : since[v] <= r}
Used       == {commands[t].tool : t \in {u \in Titles : commands[u] # None}}
Present    == {t \in Titles : commands[t] # None}

\* a custom command keeps its name; a title of the catalog may give the name of any of them
Init ==
    /\ release = 1 /\ env = 1
    /\ since \in [Vers -> 1..MaxRelease] /\ (\E v \in Vers : since[v] = 1)
    /\ base \in [Titles -> Titles] /\ \A t \in Custom : base[t] = t
    /\ exists = FALSE /\ ran = [v \in Vers |-> 0] /\ recorded = {}
    /\ commands = [t \in Titles |-> None]
    /\ settings = [k \in Keys |-> 0]
    /\ init = [p \in Inits |-> Down]
    /\ edits = 0 /\ crashes = 0 /\ removed = {}
-----------------------------------------------------------------------------
(***************************************************************************)
(* db-init                                                                 *)
(***************************************************************************)
To(p, l) == init' = [init EXCEPT ![p].at = l]
Fixed    == UNCHANGED <<world, edits, crashes, removed>>

Start(p) ==
    /\ init[p].at \in {"down", "dead"}
    /\ init' = [init EXCEPT ![p] = [Down EXCEPT !.at = "databases", !.release = release]]
    /\ UNCHANGED <<world, dbVars, commands, settings, edits, crashes, removed>>

\* ensure_databases: CREATE DATABASE fails if another has created it since the query
AlwaysAbsent == TRUE        \* mutant: no query before CREATE DATABASE
NotThere     == ~exists
Absent       == NotThere

EnsureDatabases(p) ==
    /\ \/ init[p].at = "databases" /\ To(p, IF Absent THEN "creating" ELSE "schema") /\ UNCHANGED exists
       \/ init[p].at = "creating" /\ exists' = TRUE /\ To(p, IF exists THEN "dead" ELSE "schema")
    /\ Fixed /\ UNCHANGED <<ran, recorded, commands, settings>>

\* apply_migrations
ReadApplied(p) ==
    /\ init[p].at = "schema"
    /\ init' = [init EXCEPT ![p].at = "apply", ![p].applied = recorded]
    /\ Fixed /\ UNCHANGED <<dbVars, commands, settings>>

Missing(p)   == Known(init[p].release) \ init[p].applied
AfterLast(p) == {v \in Missing(p) : \A w \in init[p].applied : w < v}    \* mutant: only newer than the last
Pending(p)   == Missing(p)

\* the SQL and the row of schema_migrations in one transaction: a row that is there undoes both
Transaction(v) ==
    IF v \in recorded THEN UNCHANGED <<ran, recorded>>
    ELSE ran' = [ran EXCEPT ![v] = @ + 1] /\ recorded' = recorded \cup {v}
OnConflictNothing(v) ==     \* mutant: the row is inserted ON CONFLICT DO NOTHING
    ran' = [ran EXCEPT ![v] = @ + 1] /\ recorded' = recorded \cup {v}
Commit(v) == Transaction(v)

Apply(p) ==
    /\ init[p].at = "apply"
    /\ \/ \E v \in Pending(p) :
            /\ \A w \in Pending(p) : v <= w
            /\ Commit(v)
            /\ init' = [init EXCEPT ![p].applied = @ \cup {v}, ![p].at = IF v \in recorded THEN "dead" ELSE "apply"]
       \/ Pending(p) = {} /\ To(p, "registry") /\ UNCHANGED <<ran, recorded>>
    /\ Fixed /\ UNCHANGED <<exists, commands, settings>>

\* import_execution_registry: what is there is read once
Importing(p) == init[p].at \in {"import", "custom"}

ReadRegistry(p) ==
    /\ init[p].at = "registry"
    /\ init' = [init EXCEPT ![p].at = "import", ![p].taken = Used, ![p].titles = Present,
                            ![p].alone = \A q \in Inits : Importing(q) => init[q].alone]
    /\ Fixed /\ UNCHANGED <<dbVars, commands, settings>>

\* tool_name_for for the catalog, which comes first: when all numbers are taken it is the name with
\* the hash, taken or not; a custom command has its name already
FreeName(t, taken) ==
    LET free == {n \in 1..MaxSuffix : <<base[t], n>> \notin taken}
    IN  <<base[t], IF free = {} THEN Hash[t] ELSE CHOOSE n \in free : \A m \in free : n <= m>>
NameOf(t, taken) == IF t \in Catalog THEN FreeName(t, taken) ELSE <<t, 1>>

ToImport(p) == (IF init[p].at = "import" THEN Catalog ELSE Custom) \ init[p].titles

\* INSERT ... ON CONFLICT (tool_name) DO NOTHING; a title that is there meanwhile is an error
SkipKnown(p, t, n) ==
    /\ commands' = IF commands[t] # None \/ n \in Used THEN commands
                   ELSE [commands EXCEPT ![t] = [tool |-> n, by |-> "migrate"]]
    /\ init' = [init EXCEPT ![p].titles = @ \cup {t}, ![p].taken = @ \cup {n},
                            ![p].at = IF commands[t] # None /\ n \notin Used THEN "dead" ELSE @]
Overwrite(p, t, n) ==       \* mutant: ON CONFLICT (title) DO UPDATE
    /\ commands' = [commands EXCEPT ![t] = [tool |-> n, by |-> "migrate"]]
    /\ init' = [init EXCEPT ![p].titles = @ \cup {t}, ![p].taken = @ \cup {n}]
Insert(p, t, n) == SkipKnown(p, t, n)

\* the custom commands are left out when system_db, where they are, cannot be read
Import(p) ==
    /\ Importing(p)
    /\ \/ \E t \in ToImport(p) : Insert(p, t, NameOf(t, init[p].taken))
       \/ /\ ToImport(p) = {} /\ UNCHANGED commands
          /\ \E l \in {"custom", "seed"} \ {init[p].at} : To(p, l)
    /\ Fixed /\ UNCHANGED <<dbVars, settings>>

\* seed_config: a forced key gets the value of the environment, another only if it has none
Seed(p) ==
    /\ init[p].at = "seed"
    /\ \/ \E k \in Keys \ init[p].keys :
            /\ settings' = [settings EXCEPT ![k] = IF k \in EnvKeys \/ @ = 0 THEN env ELSE @]
            /\ init' = [init EXCEPT ![p].keys = @ \cup {k}]
       \/ init[p].keys = Keys /\ To(p, "done") /\ UNCHANGED settings
    /\ Fixed /\ UNCHANGED <<dbVars, commands>>

Crash(p) ==
    /\ init[p].at \notin {"down", "dead", "done"} /\ crashes < MaxCrash
    /\ crashes' = crashes + 1 /\ To(p, "dead")
    /\ UNCHANGED <<world, dbVars, commands, settings, edits, removed>>
-----------------------------------------------------------------------------
(***************************************************************************)
(* The installation: upgrades, and the console once a db-init has ended    *)
(***************************************************************************)
Idle == \A p \in Inits : init[p].at \in {"down", "done", "dead"}

\* docker compose up with a new image, or a new password in .env
Upgrade ==
    /\ Idle
    /\ \/ release < MaxRelease /\ release' = release + 1 /\ UNCHANGED env
       \/ env < MaxVal /\ env' = env + 1 /\ UNCHANGED release
    /\ init' = [p \in Inits |-> Down]
    /\ UNCHANGED <<since, base, dbVars, commands, settings, edits, crashes, removed>>

Edit == edits < MaxEdits /\ edits' = edits + 1 /\ UNCHANGED <<world, dbVars, crashes>>

EditCommand(t, c) ==
    /\ Edit /\ commands' = [commands EXCEPT ![t] = c]
    /\ init' = [p \in Inits |-> [init[p] EXCEPT !.alone = FALSE]]
    /\ UNCHANGED settings

\* (a name that is taken all the same is refused)
CreateCommand(t) ==
    /\ recorded # {} /\ commands[t] = None /\ FreeName(t, Used) \notin Used
    /\ EditCommand(t, [tool |-> FreeName(t, Used), by |-> "console"]) /\ UNCHANGED removed
\* (toggling it too; the title is kept: to the import, a new one would be a deletion)
UpdateCommand(t) ==
    /\ commands[t] # None
    /\ EditCommand(t, [commands[t] EXCEPT !.by = "console"]) /\ UNCHANGED removed
DeleteCommand(t) ==
    /\ commands[t] # None
    /\ EditCommand(t, None) /\ removed' = removed \cup {t}
SetConfig(k) ==
    /\ settings[k] # 0 /\ Edit /\ \E x \in 1..MaxVal : settings' = [settings EXCEPT ![k] = x]
    /\ UNCHANGED <<commands, init, removed>>

Step(p) == EnsureDatabases(p) \/ ReadApplied(p) \/ Apply(p) \/ ReadRegistry(p) \/ Import(p) \/ Seed(p)
Console == (\E t \in Titles : CreateCommand(t) \/ UpdateCommand(t) \/ DeleteCommand(t)) \/ \E k \in Keys : SetConfig(k)

Next == (\E p \in Inits : Start(p) \/ Step(p) \/ Crash(p)) \/ Upgrade \/ Console

\* nothing waits for ever, and somebody starts db-init again as long as it fails
Spec     == Init /\ [][Next]_vars
Fairness == \A p \in Inits : WF_vars(Start(p)) /\ WF_vars(Step(p))
FairSpec == Spec /\ Fairness
-----------------------------------------------------------------------------
\* A migration takes effect exactly once and is recorded with it, whatever crashes, overlaps or
\* comes in a later release with a smaller number: some delete data or add constraints and would
\* do harm or fail the second time (apply_migrations; memory_db v2, system_db v6).
MigratedOnce == \A v \in Vers : ran[v] = IF v \in recorded THEN 1 ELSE 0

\* A db-init that ends well leaves everything the services wait for: all migrations of its
\* release, every setting, and, as long as no administrator came in between, every command of the
\* catalog and every custom command it went through under its title, but for a custom command
\* whose name another command has, and a title of the catalog when other commands have its name
\* and all numbers to it; and that with other db-inits beside it (compose starts the services on
\* service_completed_successfully; main, import_execution_registry).
DoneMeansReady ==
    \A p \in Inits : init[p].at = "done" =>
        /\ Known(init[p].release) \subseteq recorded
        /\ \A k \in Keys : settings[k] # 0
        /\ Catalog \subseteq init[p].titles
        /\ init[p].alone => \A t \in init[p].titles \ Present :
                \/ t \in Custom  /\ <<t, 1>> \in Used
                \/ t \in Catalog /\ \A n \in 1..MaxSuffix : <<base[t], n>> \in Used

\* What an administrator entered survives every db-init: commands edited and free settings
\* ("the value corrected in the console is not overwritten", import_execution_registry).
ConsoleKept ==
    [][\A p \in Inits : Step(p) =>
          /\ \A t \in Titles : commands[t] # None => commands'[t] = commands[t]
          /\ \A k \in FreeKeys : settings[k] # 0 => settings'[k] = settings[k]]_vars

\* Interrupted at any point, beside another or beside the console, db-init started again ends well.
Converges == []<>(\E p \in Inits : init[p].at = "done")

\* Taken at their word, "moves the commands of the older servers" and "the administrator's changes
\* are not overwritten" mean also: none it went through is left out, and none that was deleted
\* comes back.
AllImported   == \A p \in Inits : init[p].at = "done" => init[p].titles \subseteq Present \cup removed
DeletedStays  == [][\A p \in Inits : Step(p) => \A t \in removed : commands[t] = None => commands'[t] = None]_vars
=============================================================================
