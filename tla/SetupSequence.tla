--------------------------- MODULE SetupSequence ---------------------------
(***************************************************************************)
(* Setup (api/routes/system.py): migrations and the seed (scripts/seed.py) *)
(* as a background task of the process that owns the document library,     *)
(* with the outcome of the last one kept in memory.                        *)
(*                                                                         *)
(* The seed reads committed rows as it goes and writes in one transaction  *)
(* at its end, so a run carries what it read and what it will write.  A       *)
(* document's row and the count of its chunks are read in one step, and so *)
(* are the two counts of documents.                                        *)
(***************************************************************************)
EXTENDS Library

CONSTANTS
    PersonaCount, \* personas of SEED_PERSONAS
    Indexed,      \* roles the built-in templates index into
    MaxRoles,     \* bound on the roles operators create
    MaxRestarts   \* bound on restarts of the process

ASSUME PersonasSuffice == PersonaCount \in Nat /\ Indexed \in 1..PersonaCount
ASSUME SetupBounds == MaxRoles \in Nat /\ MaxRestarts \in Nat

VARIABLES
    tables,     \* the migrations have been applied
    custom,     \* roles operators created
    personas,   \* times the personas were inserted
    templates,  \* times the built-in templates were inserted
    op,         \* status of _last_operation
    at,         \* where each run is
    found,      \* role ids the run goes on with
    todo,       \* samples it has still to look at
    aim,        \* the sample it is embedding, and the document that lacks it
    plan,       \* what its commit will write
    overlapped, \* history: two runs were under way at once
    restarts    \* restarts of the process so far

rows == <<tables, custom, personas, templates>>
runVars == <<at, found, todo, aim, plan>>
setupVars == <<rows, op, runVars, overlapped, restarts>>

NoAim == [name |-> None, doc |-> None]
NoPlan == [personas |-> FALSE, chunks |-> {}, templates |-> FALSE]

SetupInit ==
    /\ tables \in BOOLEAN
    /\ custom = 0 /\ personas = 0 /\ templates = 0
    /\ op = "none"
    /\ at = [s \in Setup |-> "idle"]
    /\ found = [s \in Setup |-> 0]
    /\ todo = [s \in Setup |-> {}]
    /\ aim = [s \in Setup |-> NoAim]
    /\ plan = [s \in Setup |-> NoPlan]
    /\ overlapped = FALSE
    /\ restarts = 0

Active == {s \in Setup : at[s] \notin {"idle", "over"}}

RoleCount == custom + personas * PersonaCount

\* check_db_ready, what the setup guard of the frontend polls.
check_db_ready ==
    IF ~ tables THEN "no_tables" ELSE IF RoleCount = 0 THEN "no_data" ELSE "ready"

Moves(s, from, to) ==
    /\ at[s] = from
    /\ at' = [at EXCEPT ![s] = to]

\* POST /roles; no route deletes a role.
create_role ==
    /\ tables /\ custom < MaxRoles
    /\ custom' = custom + 1
    /\ UNCHANGED <<libVars, tables, personas, templates, op, runVars, overlapped, restarts>>

\* Mutation: the request leaves the last outcome standing.
QuietStart(s) ==
    /\ Moves(s, "idle", "queued")
    /\ overlapped' = (overlapped \/ Active # {})
    /\ UNCHANGED <<libVars, rows, op, found, todo, aim, plan, restarts>>

run_setup(s) ==
    /\ Moves(s, "idle", "queued")
    /\ op' = "pending"
    /\ overlapped' = (overlapped \/ Active # {})
    /\ UNCHANGED <<libVars, rows, found, todo, aim, plan, restarts>>

\* _run_migrations, in a thread; applying them again changes nothing.
_run_migrations(s) ==
    /\ Moves(s, "queued", "personas")
    /\ tables' = TRUE
    /\ UNCHANGED <<libVars, custom, personas, templates, op, found, todo, aim, plan,
                   overlapped, restarts>>

\* Mutation: personas are inserted whatever is there.
AlwaysInsert == TRUE

\* Personas are inserted into an empty table only; otherwise the run goes on
\* with the roles it finds.
InsertPersonas == RoleCount = 0

SeedPersonas(s) ==
    /\ Moves(s, "personas", "count")
    /\ found' = [found EXCEPT ![s] = IF InsertPersonas THEN PersonaCount ELSE RoleCount]
    /\ plan' = [plan EXCEPT ![s].personas = InsertPersonas]
    /\ UNCHANGED <<libVars, rows, op, todo, aim, overlapped, restarts>>

\* The samples are looked at if one, or a clone of one, is there, or no
\* document at all.
CountDocuments(s) ==
    /\ Moves(s, "count", "documents")
    /\ todo' = [todo EXCEPT ![s] =
                  IF Present = {} \/ \E d \in Present : doc[d].marked THEN Sample ELSE {}]
    /\ UNCHANGED <<libVars, rows, op, found, aim, plan, overlapped, restarts>>

Done(s, n) == todo' = [todo EXCEPT ![s] = @ \ {n}]

\* _seed_document: a document of that name that has a chunk is left alone ...
FoundWhole(s, n) ==
    /\ at[s] = "documents" /\ n \in todo[s]
    /\ Named(n) \intersect chunks # {}
    /\ Done(s, n)
    /\ UNCHANGED <<libVars, rows, op, at, found, aim, plan, overlapped, restarts>>

\* ... and one that has none, or a name nobody has, is embedded first.
EmbedFirst(s, n) ==
    /\ n \in todo[s]
    /\ Moves(s, "documents", "embedding")
    /\ \E d \in (Named(n) \ chunks) \union (IF Named(n) = {} THEN {<<s, n>>} ELSE {}) :
         aim' = [aim EXCEPT ![s] = [name |-> n, doc |-> d]]
    /\ StartCall(s)
    /\ UNCHANGED <<asymmetric, refuses, table, tasks, rows, op, found, todo, plan,
                   overlapped, restarts>>

Embeds(s) ==
    /\ Moves(s, "embedding", "documents")
    /\ Done(s, aim[s].name)
    /\ aim' = [aim EXCEPT ![s] = NoAim]

Seeded(s) ==
    /\ TakeAnswer(s, "ok")
    /\ Embeds(s)
    /\ plan' = [plan EXCEPT ![s].chunks = @ \union {aim[s].doc}]
    /\ UNCHANGED <<table, tasks, rows, op, found, overlapped, restarts>>

\* The endpoint failed: nothing was written, the run goes on without it.
NotSeeded(s) ==
    /\ \E a \in {"refused", "down"} : TakeAnswer(s, a)
    /\ Embeds(s)
    /\ UNCHANGED <<table, tasks, rows, op, found, plan, overlapped, restarts>>

Over(s, outcome) ==
    /\ at' = [at EXCEPT ![s] = "over"]
    /\ op' = outcome
    /\ found' = [found EXCEPT ![s] = 0]
    /\ todo' = [todo EXCEPT ![s] = {}]
    /\ plan' = [plan EXCEPT ![s] = NoPlan]
    /\ UNCHANGED <<aim, overlapped, restarts>>

\* Every template is looked up by its name and updated or inserted.
SeedTemplates(s) ==
    /\ todo[s] = {} /\ found[s] >= Indexed
    /\ Moves(s, "documents", "commit")
    /\ plan' = [plan EXCEPT ![s].templates = (templates = 0)]
    /\ UNCHANGED <<libVars, rows, op, found, todo, aim, overlapped, restarts>>

\* Documents the run is about to insert, and those it repairs.
Inserts(s) == plan[s].chunks \intersect {<<s, n>> : n \in Sample}
Repairs(s) == plan[s].chunks \ Inserts(s)

\* The one commit of the seed; a document deleted since it was read refuses it.
CommitSeed(s) ==
    /\ at[s] = "commit" /\ Repairs(s) \subseteq Present
    /\ personas' = personas + (IF plan[s].personas THEN 1 ELSE 0)
    /\ templates' = templates + (IF plan[s].templates THEN 1 ELSE 0)
    /\ doc' = [d \in Docs |-> IF d \in Inserts(s) THEN Row(d[2], "seed", None, TRUE) ELSE doc[d]]
    /\ chunks' = chunks \union plan[s].chunks
    /\ Over(s, "success")
    /\ UNCHANGED <<embedding, tasks, bare, tables, custom>>

\* Mutation: nobody reports the exception.
Unreported(s) ==
    /\ at[s] \in {"queued", "personas", "count", "documents", "commit"}
    /\ Over(s, op)
    /\ UNCHANGED <<libVars, rows>>

\* Any other exception, the missing roles' IndexError and the refused commit
\* included, takes the transaction with it and is reported.
SetupFails(s) ==
    /\ at[s] \in {"queued", "personas", "count", "documents", "commit"}
    /\ Over(s, "error")
    /\ UNCHANGED <<libVars, rows>>

-----------------------------------------------------------------------------
\* The process dies and starts again; what was not committed is gone.
Restart ==
    /\ restarts < MaxRestarts
    /\ restarts' = restarts + 1
    /\ LibRestart
    /\ op' = "none"
    /\ at' = [s \in Setup |-> IF s \in Active THEN "over" ELSE at[s]]
    /\ found' = [s \in Setup |-> 0]
    /\ todo' = [s \in Setup |-> {}]
    /\ aim' = [s \in Setup |-> NoAim]
    /\ plan' = [s \in Setup |-> NoPlan]
    /\ UNCHANGED <<rows, overlapped>>

SetupWork ==
    \E s \in Setup :
       \/ _run_migrations(s) \/ SeedPersonas(s) \/ CountDocuments(s)
       \/ \E n \in Sample : FoundWhole(s, n) \/ EmbedFirst(s, n)
       \/ Seeded(s) \/ NotSeeded(s) \/ SeedTemplates(s) \/ CommitSeed(s) \/ SetupFails(s)

Requests ==
    \/ tables /\ LibRequests /\ UNCHANGED setupVars
    \/ create_role
    \/ \E s \in Setup : run_setup(s)

Work ==
    \/ LibWork /\ UNCHANGED setupVars
    \/ SetupWork

SetupNext == Requests \/ Work \/ Restart

vars == <<libVars, setupVars>>

SetupSpec == LibInit /\ SetupInit /\ [][SetupNext]_vars

\* Whatever has begun goes on; nobody has to ask for anything.
FairSetupSpec == SetupSpec /\ WF_vars(Work)

-----------------------------------------------------------------------------
\* While no two runs overlap, seeding never happens twice: one set of personas,
\* one of built-in templates, one document per sample, however often setup is
\* asked for, fails or dies.
SeededOnce ==
    ~ overlapped =>
       /\ personas <= 1 /\ templates <= 1
       /\ \A d, e \in Present :
             doc[d].from = "seed" /\ doc[e].from = "seed" /\ doc[d].name = doc[e].name => d = e

\* While no two runs overlap, what the status page shows is so: pending while a
\* run is under way and only then, success only over a database that is migrated
\* and has the roles and templates a meeting is started from.
OpTellsTruth ==
    ~ overlapped =>
       /\ op = "pending" <=> Active # {}
       /\ op = "success" => check_db_ready = "ready" /\ RoleCount >= Indexed /\ templates > 0

\* Every setup asked for comes to a reported end, unless the process dies.
SetupReported == op = "pending" ~> op # "pending"
\* The library and setup implement Shelf.  A clone is its source as it was when
\* its chunks were read, whatever came before and after in the request; only an
\* upload becomes searchable after its row is committed, unless setup mends it;
\* and of a run of setup everything is there or nothing, as it reports.
Taken == [d \in Upload |-> IF copy[d].at = "chunks"
                           THEN {[row |-> copy[d].row, full |-> copy[d].full]} ELSE {}]

Promise == INSTANCE Shelf WITH
    Doc <- Docs, Client <- Upload, Run <- Setup, Title <- Sample \union {OtherName},
    shelf <- doc, findable <- chunks, asked <- Taken, underway <- Active, told <- op

RefinesShelf == Promise!ShelfSpec
=============================================================================
