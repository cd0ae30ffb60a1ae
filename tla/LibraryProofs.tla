--------------------------- MODULE LibraryProofs ---------------------------
(***************************************************************************)
(* Proofs about the document library and setup, for any uploads, clones,   *)
(* searches, samples and overlapping runs of setup.  Each part of the      *)
(* invariant reads some of the variables; a lemma first says which steps   *)
(* those variables can take, and the part is then shown over these.        *)
(* The last section shows what holds while no two runs of setup overlap.   *)
(***************************************************************************)
EXTENDS SetupSequence, TLAPS

-----------------------------------------------------------------------------
(* The embedding client.                                                   *)

CallStates == {"idle", "typed", "untyped", "again", "ok", "refused", "down"}

EmbeddingTyped ==
    /\ asymmetric \in BOOLEAN /\ refuses \in BOOLEAN
    /\ call \in [Callers -> CallStates]
    /\ met \subseteq Callers

\* Two calls in flight have met; so has a call that was made before another
\* learned what its own refusal would teach.
CallsMeet ==
    /\ \A c, e \in Callers : c \in InFlight /\ e \in InFlight /\ c # e => c \in met
    /\ \A c \in Callers : call[c] = "untyped" /\ asymmetric => c \in met
    /\ RefusedOnlyMet

\* What a step does to the embedding client.
Starts(c) == StartCall(c) /\ UNCHANGED <<asymmetric, refuses>>
Answers(c) == (Refusal(c) \/ Embedded(c) \/ EndpointFails(c)) /\ UNCHANGED <<refuses, met>>
Takes(c) == call' = [call EXCEPT ![c] = "idle"] /\ UNCHANGED <<asymmetric, refuses, met>>
Forgets ==
    /\ asymmetric' = FALSE
    /\ call' = [c \in Callers |-> IF c \in Query \ InFlight THEN call[c] ELSE "idle"]
    /\ UNCHANGED <<refuses, met>>

EmbeddingStep ==
    \/ \E c \in Callers : Starts(c) \/ Answers(c) \/ Takes(c)
    \/ Forgets
    \/ UNCHANGED embedding

\* Every step is one of those to the embedding client.
LEMMA EmbeddingSteps == [SetupNext]_vars => EmbeddingStep
<1> USE DEF EmbeddingStep, embedding
<1>1. ASSUME LibRequests, UNCHANGED setupVars PROVE EmbeddingStep
  BY <1>1 DEF LibRequests, Search, upload_document, delete_document, clone_document, Starts, Callers
<1>2. ASSUME LibWork PROVE EmbeddingStep
  <2>1. ASSUME NEW c \in Callers, Answered(c) PROVE EmbeddingStep
    BY <2>1 DEF Answered, Answers
  <2>2. ASSUME NEW d \in Upload, process_file_content(d) PROVE EmbeddingStep
    BY <2>2 DEF process_file_content, Starts, Callers, StartCall
  <2>3. ASSUME NEW d \in Upload, StoreChunks(d) \/ ProcessingFailed(d) PROVE EmbeddingStep
    BY <2>3 DEF StoreChunks, ProcessingFailed, TakeAnswer, Takes, Callers
  <2>4. ASSUME NEW d \in Upload, CopyChunks(d) \/ CommitClone(d) PROVE EmbeddingStep
    BY <2>4 DEF CopyChunks, CommitClone
  <2>5. QED
    BY <1>2, <2>1, <2>2, <2>3, <2>4 DEF LibWork
<1>3. ASSUME create_role \/ \E s \in Setup : run_setup(s) PROVE EmbeddingStep
  BY <1>3 DEF create_role, run_setup, libVars
<1>4. ASSUME NEW s \in Setup,
             \/ _run_migrations(s) \/ SeedPersonas(s) \/ CountDocuments(s)
             \/ \E n \in Sample : FoundWhole(s, n)
             \/ SeedTemplates(s) \/ CommitSeed(s) \/ SetupFails(s)
      PROVE  EmbeddingStep
  BY <1>4 DEF _run_migrations, SeedPersonas, CountDocuments, FoundWhole, SeedTemplates,
              CommitSeed, SetupFails, libVars
<1>5. ASSUME NEW s \in Setup, NEW n \in Sample, EmbedFirst(s, n) PROVE EmbeddingStep
  BY <1>5 DEF EmbedFirst, Starts, Callers
<1>6. ASSUME NEW s \in Setup, Seeded(s) \/ NotSeeded(s) PROVE EmbeddingStep
  BY <1>6 DEF Seeded, NotSeeded, TakeAnswer, Takes, Callers
<1>7. ASSUME Restart PROVE EmbeddingStep
  BY <1>7 DEF Restart, LibRestart, Forgets
<1>8. ASSUME UNCHANGED vars PROVE EmbeddingStep
  BY <1>8 DEF vars, libVars
<1>9. QED
  BY <1>1, <1>2, <1>3, <1>4, <1>5, <1>6, <1>7, <1>8 DEF SetupNext, Requests, Work, SetupWork

\* The embedding client keeps its types, and only calls that met are refused.
LEMMA CallsMeetStep ==
    ASSUME EmbeddingTyped, CallsMeet, EmbeddingStep
    PROVE  EmbeddingTyped' /\ CallsMeet'
<1> USE DEF EmbeddingTyped, CallsMeet, RefusedOnlyMet, InFlight, CallStates
<1>1. ASSUME NEW c \in Callers, Starts(c) PROVE EmbeddingTyped' /\ CallsMeet'
  BY <1>1 DEF Starts, StartCall, get_embedding_model
<1>2. ASSUME NEW c \in Callers, Answers(c) PROVE EmbeddingTyped' /\ CallsMeet'
  <2>1. CASE Refusal(c)
    BY <1>2, <2>1 DEF Answers, Refusal
  <2>2. CASE Embedded(c)
    BY <1>2, <2>2 DEF Answers, Embedded
  <2>3. CASE EndpointFails(c)
    BY <1>2, <2>3 DEF Answers, EndpointFails
  <2>4. QED
    BY <1>2, <2>1, <2>2, <2>3 DEF Answers
<1>3. ASSUME NEW c \in Callers, Takes(c) PROVE EmbeddingTyped' /\ CallsMeet'
  BY <1>3 DEF Takes
<1>4. CASE Forgets
  BY <1>4 DEF Forgets
<1>5. CASE UNCHANGED embedding
  BY <1>5 DEF embedding
<1>6. QED
  BY <1>1, <1>2, <1>3, <1>4, <1>5 DEF EmbeddingStep

-----------------------------------------------------------------------------
(* The runs of setup.                                                      *)

Stages == {"idle", "queued", "personas", "count", "documents", "embedding", "commit", "over"}
Aims == [name : Sample \union {None}, doc : Docs \union {None}]
Plans == [personas : BOOLEAN, chunks : SUBSET Docs, templates : BOOLEAN]

RunsTyped ==
    /\ tables \in BOOLEAN /\ overlapped \in BOOLEAN
    /\ custom \in Nat /\ personas \in Nat /\ templates \in Nat /\ restarts \in Nat
    /\ op \in {"none", "pending", "success", "error"}
    /\ at \in [Setup -> Stages]
    /\ found \in [Setup -> Nat]
    /\ todo \in [Setup -> SUBSET Sample]
    /\ aim \in [Setup -> Aims]
    /\ plan \in [Setup -> Plans]
    /\ \A s \in Setup : at[s] = "embedding" => aim[s].name \in Sample /\ aim[s].doc \in Docs

\* Roles only become more, and the personas come as a whole.
LEMMA Roles ==
    ASSUME custom \in Nat, personas \in Nat
    PROVE  /\ RoleCount \in Nat
           /\ personas > 0 => RoleCount >= PersonaCount
           /\ RoleCount = 0 => personas = 0
<1>1. PersonaCount \in Nat /\ PersonaCount > 0
  BY PersonasSuffice
<1>2. personas * PersonaCount \in Nat
  BY <1>1
<1>3. personas > 0 => personas * PersonaCount >= PersonaCount
  BY <1>1
<1>4. QED
  BY <1>1, <1>2, <1>3 DEF RoleCount

\* Every step keeps the types of what setup keeps.
LEMMA RunsTypedStep ==
    ASSUME RunsTyped, [SetupNext]_vars
    PROVE  RunsTyped'
<1> USE DEF RunsTyped, Stages, rows, runVars
<1>1. ASSUME UNCHANGED setupVars PROVE RunsTyped'
  BY <1>1 DEF setupVars
<1>2. ASSUME create_role PROVE RunsTyped'
  BY <1>2 DEF create_role
<1>3. ASSUME NEW s \in Setup, run_setup(s) PROVE RunsTyped'
  BY <1>3 DEF run_setup, Moves
<1>4. ASSUME NEW s \in Setup, _run_migrations(s) PROVE RunsTyped'
  BY <1>4 DEF _run_migrations, Moves
<1>5. ASSUME NEW s \in Setup, SeedPersonas(s) PROVE RunsTyped'
  <2>1. RoleCount \in Nat /\ PersonaCount \in Nat
    BY Roles, PersonasSuffice
  <2>2. plan' \in [Setup -> Plans]
    <3> DEFINE new == InsertPersonas
    <3>1. new \in BOOLEAN
      BY DEF InsertPersonas
    <3>2. plan' = [plan EXCEPT ![s].personas = new]
      BY <1>5 DEF SeedPersonas
    <3> HIDE DEF new
    <3>3. QED
      BY <3>1, <3>2 DEF Plans
  <2>3. found' \in [Setup -> Nat]
    BY <1>5, <2>1 DEF SeedPersonas
  <2>4. /\ at' \in [Setup -> Stages]
        /\ \A t \in Setup : at'[t] = "embedding" => at[t] = "embedding"
    BY <1>5 DEF SeedPersonas, Moves
  <2>5. QED
    BY <1>5, <2>2, <2>3, <2>4 DEF SeedPersonas
<1>6. ASSUME NEW s \in Setup, CountDocuments(s) PROVE RunsTyped'
  BY <1>6 DEF CountDocuments, Moves
<1>7. ASSUME NEW s \in Setup, NEW n \in Sample, FoundWhole(s, n) PROVE RunsTyped'
  BY <1>7 DEF FoundWhole, Done
<1>8. ASSUME NEW s \in Setup, NEW n \in Sample, EmbedFirst(s, n) PROVE RunsTyped'
  <2>1. PICK d \in (Named(n) \ chunks) \union (IF Named(n) = {} THEN {<<s, n>>} ELSE {}) :
          aim' = [aim EXCEPT ![s] = [name |-> n, doc |-> d]]
    BY <1>8 DEF EmbedFirst
  <2>2. d \in Docs
    BY <2>1 DEF Named, Present, Docs
  <2>3. aim' \in [Setup -> Aims] /\ aim'[s].name = n /\ aim'[s].doc = d
    BY <2>1, <2>2 DEF Aims
  <2>4. \A t \in Setup \ {s} : aim'[t] = aim[t]
    BY <2>1
  <2>5. QED
    BY <1>8, <2>2, <2>3, <2>4 DEF EmbedFirst, Moves
<1>9. ASSUME NEW s \in Setup, Seeded(s) \/ NotSeeded(s) PROVE RunsTyped'
  <2>1. /\ Embeds(s)
        /\ UNCHANGED <<tables, custom, personas, templates, op, found, overlapped, restarts>>
    BY <1>9 DEF Seeded, NotSeeded
  <2>2. aim[s].name \in Sample /\ aim[s].doc \in Docs
    BY <2>1 DEF Embeds, Moves
  <2>3. plan' \in [Setup -> Plans]
    BY <1>9, <2>2 DEF Seeded, NotSeeded, Plans
  <2>4. aim' \in [Setup -> Aims]
    BY <2>1 DEF Embeds, NoAim, Aims
  <2>5. todo' \in [Setup -> SUBSET Sample]
    BY <2>1 DEF Embeds, Done
  <2>6. QED
    BY <2>1, <2>3, <2>4, <2>5 DEF Embeds, Moves
<1>10. ASSUME NEW s \in Setup, SeedTemplates(s) PROVE RunsTyped'
  <2>1. plan' \in [Setup -> Plans]
    <3>1. \E b \in BOOLEAN : plan' = [plan EXCEPT ![s].templates = b]
      BY <1>10 DEF SeedTemplates
    <3>2. QED
      BY <3>1 DEF Plans
  <2>2. QED
    BY <1>10, <2>1 DEF SeedTemplates, Moves
<1>11. ASSUME NEW s \in Setup, NEW outcome \in {"success", "error"}, Over(s, outcome),
              UNCHANGED tables, UNCHANGED custom, personas' \in Nat, templates' \in Nat
       PROVE  RunsTyped'
  <2>1. plan' \in [Setup -> Plans]
    BY <1>11 DEF Over, NoPlan, Plans
  <2>2. QED
    BY <1>11, <2>1 DEF Over
<1>12. ASSUME NEW s \in Setup, CommitSeed(s) PROVE RunsTyped'
  BY <1>11, <1>12 DEF CommitSeed
<1>13. ASSUME NEW s \in Setup, SetupFails(s) PROVE RunsTyped'
  BY <1>11, <1>13 DEF SetupFails
<1>14. ASSUME Restart PROVE RunsTyped'
  <2>1. plan' \in [Setup -> Plans] /\ aim' \in [Setup -> Aims]
    BY <1>14 DEF Restart, NoPlan, NoAim, Plans, Aims
  <2>2. /\ at' \in [Setup -> Stages]
        /\ \A t \in Setup : at'[t] # "embedding"
    BY <1>14 DEF Restart, Active
  <2>3. QED
    BY <1>14, <2>1, <2>2 DEF Restart
<1>15. QED
  BY <1>1, <1>2, <1>3, <1>4, <1>5, <1>6, <1>7, <1>8, <1>9, <1>10, <1>12, <1>13, <1>14
     DEF SetupNext, Requests, Work, SetupWork, vars

-----------------------------------------------------------------------------
(* The background tasks of uploads.                                        *)

Fates == {"none", "whole", "unread", "refused", "down", "unstored", "orphan", "lost"}

TasksTyped ==
    /\ ingest \in [Upload -> {"none", "queued", "embedding"}]
    /\ fate \in [Upload -> Fates]

TaskStep ==
    \/ \E d \in Upload :
         \/ upload_document(d) \/ process_file_content(d) \/ StoreChunks(d) \/ ProcessingFailed(d)
    \/ LibRestart
    \/ UNCHANGED <<ingest, fate>>

\* Every step is one of those to the tasks.
LEMMA TaskSteps == [SetupNext]_vars => TaskStep
<1> USE DEF TaskStep, tasks
<1>1. ASSUME LibRequests PROVE TaskStep
  BY <1>1 DEF LibRequests, Search, delete_document, clone_document
<1>2. ASSUME LibWork PROVE TaskStep
  BY <1>2 DEF LibWork, Answered, CopyChunks, CommitClone
<1>3. ASSUME create_role \/ \E s \in Setup : run_setup(s) PROVE TaskStep
  BY <1>3 DEF create_role, run_setup, libVars
<1>4. ASSUME SetupWork PROVE TaskStep
  BY <1>4 DEF SetupWork, _run_migrations, SeedPersonas, CountDocuments, FoundWhole, EmbedFirst,
              Seeded, NotSeeded, SeedTemplates, CommitSeed, SetupFails, libVars
<1>5. ASSUME Restart \/ UNCHANGED vars PROVE TaskStep
  BY <1>5 DEF Restart, vars, libVars
<1>6. QED
  BY <1>1, <1>2, <1>3, <1>4, <1>5 DEF SetupNext, Requests, Work

\* The tasks keep their types.
LEMMA TasksTypedStep ==
    ASSUME TasksTyped, TaskStep
    PROVE  TasksTyped'
<1> USE DEF TasksTyped, Fates
<1>1. ASSUME NEW d \in Upload, upload_document(d) PROVE TasksTyped'
  BY <1>1 DEF upload_document
<1>2. ASSUME NEW d \in Upload, process_file_content(d) PROVE TasksTyped'
  BY <1>2 DEF process_file_content
<1>3. ASSUME NEW d \in Upload, StoreChunks(d) PROVE TasksTyped'
  BY <1>3 DEF StoreChunks
<1>4. ASSUME NEW d \in Upload, ProcessingFailed(d) PROVE TasksTyped'
  BY <1>4 DEF ProcessingFailed
<1>5. ASSUME LibRestart PROVE TasksTyped'
  BY <1>5 DEF LibRestart
<1>6. QED
  BY <1>1, <1>2, <1>3, <1>4, <1>5 DEF TaskStep

-----------------------------------------------------------------------------
(* The documents and the clones that will be.                              *)

TableTyped ==
    /\ doc \in [Docs -> Rows \union {Unused, Deleted}]
    /\ chunks \subseteq Present
    /\ copy \in [Upload -> CopyJobs \union {NoCopy}]
    /\ bare \subseteq Docs

\* What is committed without a chunk, or deleted, is remembered as bare, and so is
\* what a clone has found no chunk of.
BareKept ==
    /\ \A d \in Docs : doc[d] # Unused /\ d \notin chunks => d \in bare
    /\ \A d \in Upload : copy[d] # NoCopy =>
         /\ doc[copy[d].src] # Unused
         /\ copy[d].row.from = "clone" /\ copy[d].row.src = copy[d].src
         /\ copy[d].at = "chunks" /\ ~ copy[d].full => copy[d].src \in bare
    /\ ChunklessExplained

TableStep ==
    \/ \E d \in Upload :
         upload_document(d) \/ StoreChunks(d) \/ CopyChunks(d) \/ CommitClone(d)
    \/ \E d \in Upload, s \in Docs : clone_document(d, s)
    \/ \E d \in Docs : delete_document(d)
    \/ \E s \in Setup : CommitSeed(s)
    \/ LibRestart
    \/ UNCHANGED <<table, copy>>

\* Every step is one of those to the documents.
LEMMA TableSteps == [SetupNext]_vars => TableStep
<1> USE DEF TableStep, tasks
<1>1. ASSUME LibRequests PROVE TableStep
  BY <1>1 DEF LibRequests, Search
<1>2. ASSUME LibWork PROVE TableStep
  BY <1>2 DEF LibWork, Answered, process_file_content, ProcessingFailed
<1>3. ASSUME create_role \/ \E s \in Setup : run_setup(s) PROVE TableStep
  BY <1>3 DEF create_role, run_setup, libVars
<1>4. ASSUME SetupWork PROVE TableStep
  BY <1>4 DEF SetupWork, _run_migrations, SeedPersonas, CountDocuments, FoundWhole, EmbedFirst,
              Seeded, NotSeeded, SeedTemplates, SetupFails, libVars
<1>5. ASSUME Restart \/ UNCHANGED vars PROVE TableStep
  BY <1>5 DEF Restart, vars, libVars
<1>6. QED
  BY <1>1, <1>2, <1>3, <1>4, <1>5 DEF SetupNext, Requests, Work

\* A row is a row, and the two that are not are not.
LEMMA RowFacts ==
    ASSUME NEW n \in Sample \union {OtherName}, NEW from \in {"upload", "clone", "seed"},
           NEW src \in Docs \union {None}, NEW marked \in BOOLEAN
    PROVE  /\ Row(n, from, src, marked) \in Rows
           /\ Row(n, from, src, marked).state = "present"
           /\ Row(n, from, src, marked).name = n
           /\ Row(n, from, src, marked).from = from
           /\ Row(n, from, src, marked).src = src
BY DEF Row, Rows

LEMMA NoRows ==
    /\ Unused.state # "present" /\ Deleted.state # "present" /\ Unused # Deleted
    /\ \A r \in Rows : r.state = "present" /\ r # Unused /\ r # Deleted
    /\ \A j \in CopyJobs : j.at # "none" /\ j # NoCopy
    /\ NoCopy.at = "none"
<1>1. Unused.state = "unused" /\ Deleted.state = "deleted" /\ NoCopy.at = "none"
  BY DEF Unused, Deleted, NoCopy
<1>2. \A r \in Rows : r.state = "present"
  BY DEF Rows
<1>3. \A j \in CopyJobs : j.at \in {"row", "chunks"}
  BY DEF CopyJobs
<1>4. QED
  BY <1>1, <1>2, <1>3

\* The commit of the seed makes rows of the samples' names, and every chunk it
\* writes belongs to a document that is then there.
LEMMA SeedCommit ==
    ASSUME RunsTyped, TableTyped, NEW s \in Setup, CommitSeed(s)
    PROVE  /\ doc' \in [Docs -> Rows \union {Unused, Deleted}]
           /\ chunks' = chunks \union plan[s].chunks /\ plan[s].chunks \subseteq Docs
           /\ \A d \in Docs : d \notin Inserts(s) => doc'[d] = doc[d]
           /\ \A n \in Sample : <<s, n>> \in Inserts(s) =>
                 /\ doc'[<<s, n>>] = Row(n, "seed", None, TRUE)
                 /\ doc'[<<s, n>>] \in Rows /\ doc'[<<s, n>>].state = "present"
           /\ \A d \in Inserts(s) : \E n \in Sample : d = <<s, n>>
           /\ Repairs(s) \subseteq Present
<1>1. /\ doc' = [d \in Docs |-> IF d \in Inserts(s) THEN Row(d[2], "seed", None, TRUE) ELSE doc[d]]
      /\ chunks' = chunks \union plan[s].chunks
      /\ Repairs(s) \subseteq Present
  BY DEF CommitSeed
<1>2. plan[s].chunks \subseteq Docs
  BY DEF RunsTyped, Plans
<1>3. \A d \in Inserts(s) : \E n \in Sample : d = <<s, n>>
  BY DEF Inserts
<1>4. \A n \in Sample : <<s, n>> \in Docs /\ <<s, n>>[2] = n
  BY DEF Docs
<1>5. ASSUME NEW n \in Sample
      PROVE  Row(n, "seed", None, TRUE) \in Rows /\ Row(n, "seed", None, TRUE).state = "present"
  <2>1. Row(n, "seed", None, TRUE) \in Rows
    BY RowFacts
  <2>2. QED
    BY <2>1 DEF Rows
<1>6. \A n \in Sample : <<s, n>> \in Inserts(s) => doc'[<<s, n>>] = Row(n, "seed", None, TRUE)
  BY <1>1, <1>4
<1>7. \A d \in Docs : d \notin Inserts(s) => doc'[d] = doc[d]
  BY <1>1
<1>8. \A d \in Docs : doc'[d] \in Rows \union {Unused, Deleted}
  <2>1. \A d \in Docs : doc[d] \in Rows \union {Unused, Deleted}
    BY DEF TableTyped
  <2>2. \A d \in Inserts(s) : doc'[d] \in Rows
    BY <1>3, <1>5, <1>6
  <2>3. QED
    BY <1>7, <2>1, <2>2
<1>9. doc' \in [Docs -> Rows \union {Unused, Deleted}]
  BY <1>1, <1>8
<1>10. \A n \in Sample : <<s, n>> \in Inserts(s) =>
          /\ doc'[<<s, n>>] = Row(n, "seed", None, TRUE)
          /\ doc'[<<s, n>>] \in Rows /\ doc'[<<s, n>>].state = "present"
  BY <1>5, <1>6
<1>11. chunks' = chunks \union plan[s].chunks /\ Repairs(s) \subseteq Present
  BY <1>1
<1>12. QED
  BY <1>2, <1>3, <1>7, <1>9, <1>10, <1>11, Zenon

\* A clone that has read the chunks is the job it was, and knows if there were any.
LEMMA CopiedChunks ==
    ASSUME TableTyped, NEW d \in Upload, CopyChunks(d)
    PROVE  /\ copy' \in [Upload -> CopyJobs \union {NoCopy}]
           /\ \A e \in Upload : e # d => copy'[e] = copy[e]
           /\ copy'[d].src = copy[d].src /\ copy'[d].row = copy[d].row
           /\ copy'[d].full = (copy[d].src \in chunks)
<1> DEFINE full == copy[d].src \in chunks
<1>1. copy[d] \in CopyJobs
  BY NoRows DEF CopyChunks, TableTyped
<1>2. full \in BOOLEAN
  OBVIOUS
<1>3. copy' = [copy EXCEPT ![d] = [copy[d] EXCEPT !.at = "chunks", !.full = full]]
  BY DEF CopyChunks
<1> HIDE DEF full
<1>4. copy'[d] = [copy[d] EXCEPT !.at = "chunks", !.full = full]
  BY <1>3 DEF TableTyped
<1>5. copy'[d] \in CopyJobs
  BY <1>1, <1>2, <1>4 DEF CopyJobs
<1>6. copy'[d].src = copy[d].src /\ copy'[d].row = copy[d].row /\ copy'[d].full = full
  BY <1>1, <1>4 DEF CopyJobs
<1>7. \A e \in Upload : e # d => copy'[e] = copy[e]
  BY <1>3 DEF TableTyped
<1>8. copy' \in [Upload -> CopyJobs \union {NoCopy}]
  BY <1>3, <1>5, <1>7 DEF TableTyped
<1> USE DEF full
<1>9. QED
  BY <1>6, <1>7, <1>8

\* Every step keeps the types of documents, chunks and clones.
LEMMA TableTypedStep ==
    ASSUME RunsTyped, TableTyped, TableStep
    PROVE  TableTyped'
<1> USE NoRows DEF TableTyped, Present
<1>1. ASSUME NEW d \in Upload, upload_document(d) PROVE TableTyped'
  <2>1. PICK n \in Sample \union {OtherName} : doc' = [doc EXCEPT ![d] = Row(n, "upload", None, FALSE)]
    BY <1>1 DEF upload_document
  <2>2. Row(n, "upload", None, FALSE) \in Rows /\ d \in Docs
    BY RowFacts DEF Docs
  <2>3. QED
    BY <1>1, <2>1, <2>2 DEF upload_document
<1>2. ASSUME NEW d \in Upload, StoreChunks(d) PROVE TableTyped'
  BY <1>2 DEF StoreChunks, Docs
<1>3. ASSUME NEW d \in Upload, CopyChunks(d) PROVE TableTyped'
  BY <1>3, CopiedChunks DEF CopyChunks, table
<1>4. ASSUME NEW d \in Upload, CommitClone(d) PROVE TableTyped'
  <2>1. copy[d] \in CopyJobs /\ d \in Docs
    BY <1>4 DEF CommitClone, Docs
  <2>2. copy[d].row \in Rows
    BY <2>1 DEF CopyJobs
  <2>3. doc' = [doc EXCEPT ![d] = copy[d].row]
    BY <1>4 DEF CommitClone
  <2>4. /\ doc' \in [Docs -> Rows \union {Unused, Deleted}]
        /\ chunks \union {d} \subseteq Present'
    BY <2>1, <2>2, <2>3
  <2>5. QED
    BY <1>4, <2>1, <2>4 DEF CommitClone
<1>5. ASSUME NEW d \in Upload, NEW s \in Docs, clone_document(d, s) PROVE TableTyped'
  <2>1. doc[s] \in Rows
    BY <1>5 DEF clone_document
  <2>2. doc[s].name \in Sample \union {OtherName} /\ doc[s].marked \in BOOLEAN
    BY <2>1 DEF Rows
  <2>3. Row(doc[s].name, "clone", s, doc[s].marked) \in Rows
    BY <2>2 DEF Row, Rows
  <2>4. [at |-> "row", src |-> s, full |-> FALSE,
         row |-> Row(doc[s].name, "clone", s, doc[s].marked)] \in CopyJobs
    BY <2>3 DEF CopyJobs
  <2>5. QED
    BY <1>5, <2>4 DEF clone_document, table
<1>6. ASSUME NEW d \in Docs, delete_document(d) PROVE TableTyped'
  BY <1>6 DEF delete_document, tasks
<1>7. ASSUME NEW s \in Setup, CommitSeed(s) PROVE TableTyped'
  <2>1. chunks' \subseteq Present'
    <3>1. \A d \in Docs : d \notin Inserts(s) => doc'[d] = doc[d]
      BY <1>7, SeedCommit
    <3>2. \A d \in Inserts(s) : doc'[d].state = "present"
      <4>1. \A n \in Sample : <<s, n>> \in Inserts(s) => doc'[<<s, n>>].state = "present"
        BY <1>7, SeedCommit
      <4>2. \A d \in Inserts(s) : \E n \in Sample : d = <<s, n>>
        BY <1>7, SeedCommit
      <4>3. QED
        BY <4>1, <4>2
    <3>3. Repairs(s) \subseteq Present /\ chunks' = chunks \union plan[s].chunks
          /\ plan[s].chunks \subseteq Docs
      BY <1>7, SeedCommit
    <3>4. \A d \in Present : doc'[d].state = "present"
      BY <3>1, <3>2
    <3>5. \A d \in chunks' : d \in Docs /\ doc'[d].state = "present"
      BY <3>2, <3>3, <3>4 DEF Repairs
    <3>6. QED
      BY <3>5
  <2>2. QED
    BY <1>7, <2>1, SeedCommit DEF CommitSeed, tasks
<1>8. ASSUME LibRestart PROVE TableTyped'
  BY <1>8 DEF LibRestart, table
<1>9. ASSUME UNCHANGED <<table, copy>> PROVE TableTyped'
  BY <1>9 DEF table
<1>10. QED
  BY <1>1, <1>2, <1>3, <1>4, <1>5, <1>6, <1>7, <1>8, <1>9 DEF TableStep

\* Every step keeps the account of documents without a chunk.
LEMMA BareKeptStep ==
    ASSUME RunsTyped, TableTyped, BareKept, TableStep
    PROVE  BareKept'
<1>1. ASSUME NEW d \in Upload, upload_document(d) PROVE BareKept'
  <2>1. PICK n \in Sample \union {OtherName} : doc' = [doc EXCEPT ![d] = Row(n, "upload", None, FALSE)]
    BY <1>1 DEF upload_document
  <2>2. /\ Row(n, "upload", None, FALSE) \in Rows /\ d \in Docs
    BY RowFacts DEF Docs
  <2>3. Row(n, "upload", None, FALSE).from = "upload"
    BY DEF Row
  <2>4. doc[d] = Unused /\ copy[d] = NoCopy
    BY <1>1 DEF upload_document, Fresh
  <2>5. \A e \in Docs : e # d => doc'[e] = doc[e]
    BY <2>1 DEF TableTyped
  <2>6. doc'[d] = Row(n, "upload", None, FALSE)
    BY <2>1, <2>2 DEF TableTyped
  <2>7. chunks' = chunks /\ copy' = copy /\ bare' = bare \union {d}
    BY <1>1 DEF upload_document
  <2>8. \A e \in Docs : doc'[e] # Unused /\ e \notin chunks' => e \in bare'
    BY <2>5, <2>7 DEF BareKept
  <2>9. \A e \in Docs : doc[e] # Unused => doc'[e] # Unused
    BY <2>2, <2>5, <2>6, NoRows
  <2>10. \A e \in Upload : copy[e] # NoCopy => copy[e].src \in Docs
    BY DEF TableTyped, CopyJobs
  <2>11. \A e \in Upload : copy'[e] # NoCopy =>
           /\ doc'[copy'[e].src] # Unused
           /\ copy'[e].row.from = "clone" /\ copy'[e].row.src = copy'[e].src
           /\ copy'[e].at = "chunks" /\ ~ copy'[e].full => copy'[e].src \in bare'
    BY <2>7, <2>9, <2>10 DEF BareKept
  <2>12. ChunklessExplained'
    <3>1. ASSUME NEW e \in Present', e \notin chunks' PROVE e = d \/ e \in Present \ chunks
      BY <2>5, <2>7, <3>1 DEF Present
    <3>2. doc'[d].from = "upload"
      BY <2>3, <2>6
    <3>3. QED
      BY <2>5, <2>7, <3>1, <3>2 DEF BareKept, ChunklessExplained, Present
  <2>13. QED
    BY <2>8, <2>11, <2>12 DEF BareKept
<1>2. ASSUME NEW d \in Upload, StoreChunks(d) PROVE BareKept'
  BY <1>2, NoRows DEF StoreChunks, TableTyped, BareKept, ChunklessExplained, Present
<1>3. ASSUME NEW d \in Upload, CopyChunks(d) PROVE BareKept'
  <2>1. \A e \in Upload : copy[e] # NoCopy => copy[e].src \in Docs
    BY DEF TableTyped, CopyJobs
  <2>2. copy[d] # NoCopy
    BY <1>3, NoRows DEF CopyChunks
  <2>3. UNCHANGED <<doc, chunks, bare>>
    BY <1>3 DEF CopyChunks, table
  <2>4. \A e \in Upload : copy'[e] # NoCopy =>
           /\ doc[copy'[e].src] # Unused
           /\ copy'[e].row.from = "clone" /\ copy'[e].row.src = copy'[e].src
           /\ copy'[e].at = "chunks" /\ ~ copy'[e].full => copy'[e].src \in bare
    <3>1. /\ \A e \in Upload : e # d => copy'[e] = copy[e]
          /\ copy'[d].src = copy[d].src /\ copy'[d].row = copy[d].row
          /\ copy'[d].full = (copy[d].src \in chunks)
      BY <1>3, CopiedChunks
    <3>2. \A e \in Docs : doc[e] # Unused /\ e \notin chunks => e \in bare
      BY DEF BareKept
    <3>3. \A e \in Upload : e # d /\ copy'[e] # NoCopy =>
             /\ doc[copy'[e].src] # Unused
             /\ copy'[e].row.from = "clone" /\ copy'[e].row.src = copy'[e].src
             /\ copy'[e].at = "chunks" /\ ~ copy'[e].full => copy'[e].src \in bare
      BY <3>1 DEF BareKept
    <3>4. /\ doc[copy'[d].src] # Unused
          /\ copy'[d].row.from = "clone" /\ copy'[d].row.src = copy'[d].src
      BY <2>2, <3>1 DEF BareKept
    <3>5. ~ copy'[d].full => copy'[d].src \in bare
      BY <2>1, <2>2, <3>1, <3>2, <3>4
    <3>6. QED
      BY <3>3, <3>4, <3>5
  <2>5. QED
    BY <2>3, <2>4 DEF BareKept, ChunklessExplained, Present
<1>4. ASSUME NEW d \in Upload, CommitClone(d) PROVE BareKept'
  <2>1. copy[d] \in CopyJobs /\ copy[d] # NoCopy /\ d \in Docs
    BY <1>4, NoRows DEF CommitClone, Docs, TableTyped
  <2>2. copy[d].row \in Rows
    BY <2>1 DEF CopyJobs
  <2>3. /\ doc' = [doc EXCEPT ![d] = copy[d].row]
        /\ copy' = [copy EXCEPT ![d] = NoCopy]
    BY <1>4 DEF CommitClone
  <2>4. \A e \in Docs : e # d => doc'[e] = doc[e]
    BY <2>3 DEF TableTyped
  <2>5. doc'[d] = copy[d].row
    BY <2>1, <2>3 DEF TableTyped
  <2>6. bare \subseteq bare'
    BY <1>4 DEF CommitClone
  <2>7. \A e \in Docs : doc'[e] # Unused /\ e \notin chunks' => e \in bare'
    BY <1>4, <2>4, <2>6 DEF CommitClone, BareKept
  <2>8. \A e \in Upload : copy'[e] # NoCopy =>
           /\ e # d /\ copy'[e] = copy[e] /\ copy[e] \in CopyJobs /\ copy[e].src \in Docs
    BY <2>3 DEF CopyJobs, TableTyped
  <2>9. \A e \in Docs : doc[e] # Unused => doc'[e] # Unused
    BY <2>2, <2>4, <2>5, NoRows
  <2>10. \A e \in Upload : copy'[e] # NoCopy =>
           /\ doc'[copy'[e].src] # Unused
           /\ copy'[e].row.from = "clone" /\ copy'[e].row.src = copy'[e].src
           /\ copy'[e].at = "chunks" /\ ~ copy'[e].full => copy'[e].src \in bare'
    BY <2>6, <2>8, <2>9 DEF BareKept
  <2>11. ChunklessExplained'
    <3>1. d \in Present' \ chunks' => ~ copy[d].full
      BY <1>4 DEF CommitClone
    <3>2. d \in Present' \ chunks' => doc'[d].from = "clone" /\ doc'[d].src \in bare'
      BY <1>4, <2>1, <2>5, <2>6, <3>1 DEF CommitClone, BareKept
    <3>3. \A e \in Present' \ chunks' : e # d => e \in Present \ chunks
      BY <1>4, <2>4 DEF CommitClone, Present
    <3>4. QED
      BY <2>4, <2>6, <3>2, <3>3 DEF BareKept, ChunklessExplained, Present
  <2>12. QED
    BY <2>7, <2>10, <2>11 DEF BareKept
<1>5. ASSUME NEW d \in Upload, NEW s \in Docs, clone_document(d, s) PROVE BareKept'
  <2>1. doc[s] \in Rows
    BY <1>5, NoRows DEF clone_document, TableTyped, Present
  <2>2. doc[s].name \in Sample \union {OtherName} /\ doc[s].marked \in BOOLEAN
    BY <2>1 DEF Rows
  <2>3. DEFINE row == Row(doc[s].name, "clone", s, doc[s].marked)
  <2>4. row.from = "clone" /\ row.src = s
    BY <2>2, RowFacts
  <2>5. copy' = [copy EXCEPT ![d] = [at |-> "row", src |-> s, full |-> FALSE, row |-> row]]
    BY <1>5 DEF clone_document
  <2> HIDE DEF row
  <2>6. QED
    BY <1>5, <2>1, <2>4, <2>5, NoRows
       DEF clone_document, table, TableTyped, BareKept, ChunklessExplained, Present
<1>6. ASSUME NEW d \in Docs, delete_document(d) PROVE BareKept'
  <2>1. \A e \in Upload : copy[e] # NoCopy => copy[e].src \in Docs
    BY DEF TableTyped, CopyJobs
  <2>2. QED
    BY <1>6, <2>1, NoRows
       DEF delete_document, tasks, TableTyped, BareKept, ChunklessExplained, Present
<1>7. ASSUME NEW s \in Setup, CommitSeed(s) PROVE BareKept'
  <2>1. /\ chunks \subseteq chunks' /\ bare' = bare /\ copy' = copy
        /\ \A d \in Docs : d \notin chunks' => doc'[d] = doc[d]
    BY <1>7, SeedCommit DEF CommitSeed, tasks, Inserts
  <2>2. \A d \in Docs : doc[d] # Unused => doc'[d] # Unused
    <3>1. \A d \in Docs : d \notin Inserts(s) => doc'[d] = doc[d]
      BY <1>7, SeedCommit
    <3>2. \A d \in Inserts(s) : doc'[d] \in Rows
      BY <1>7, SeedCommit
    <3>3. QED
      BY <3>1, <3>2, NoRows
  <2>3. \A d \in Upload : copy[d] # NoCopy => copy[d].src \in Docs
    BY DEF TableTyped, CopyJobs
  <2>4. QED
    BY <2>1, <2>2, <2>3 DEF BareKept, ChunklessExplained, Present
<1>8. ASSUME LibRestart PROVE BareKept'
  BY <1>8 DEF LibRestart, table, BareKept, ChunklessExplained, Present
<1>9. ASSUME UNCHANGED <<table, copy>> PROVE BareKept'
  BY <1>9 DEF table, BareKept, ChunklessExplained, Present
<1>10. QED
  BY <1>1, <1>2, <1>3, <1>4, <1>5, <1>6, <1>7, <1>8, <1>9 DEF TableStep

\* What the library's types rest on is kept by every step.
LibraryInv == EmbeddingTyped /\ CallsMeet /\ RunsTyped /\ TasksTyped /\ TableTyped /\ BareKept

THEOREM LibraryInvariance == SetupSpec => []LibraryInv
<1>1. LibInit /\ SetupInit => LibraryInv
  <2> SUFFICES ASSUME LibInit, SetupInit PROVE LibraryInv
    OBVIOUS
  <2>1. EmbeddingTyped /\ CallsMeet
    BY DEF LibInit, InFlight, EmbeddingTyped, CallsMeet, RefusedOnlyMet, CallStates
  <2>2. plan \in [Setup -> Plans] /\ aim \in [Setup -> Aims]
    BY DEF SetupInit, NoPlan, NoAim, Plans, Aims
  <2>3. RunsTyped
    BY <2>2 DEF SetupInit, RunsTyped, Stages
  <2>4. TasksTyped
    BY DEF LibInit, TasksTyped, Fates
  <2>5. TableTyped /\ BareKept
    BY NoRows DEF LibInit, TableTyped, BareKept, ChunklessExplained, Present
  <2>6. QED
    BY <2>1, <2>3, <2>4, <2>5 DEF LibraryInv
<1>2. LibraryInv /\ [SetupNext]_vars => LibraryInv'
  <2> SUFFICES ASSUME LibraryInv, [SetupNext]_vars PROVE LibraryInv'
    OBVIOUS
  <2>1. EmbeddingTyped' /\ CallsMeet'
    BY EmbeddingSteps, CallsMeetStep DEF LibraryInv
  <2>2. RunsTyped'
    BY RunsTypedStep DEF LibraryInv
  <2>3. TasksTyped'
    BY TaskSteps, TasksTypedStep DEF LibraryInv
  <2>4. TableTyped' /\ BareKept'
    BY TableSteps, TableTypedStep, BareKeptStep DEF LibraryInv
  <2>5. QED
    BY <2>1, <2>2, <2>3, <2>4 DEF LibraryInv
<1>3. QED
  BY <1>1, <1>2, PTL DEF SetupSpec

\* The types hold, and a chunk belongs to a document that is there.
THEOREM LibraryTyped == SetupSpec => []LibTypeOK
<1>1. LibraryInv => LibTypeOK
  BY DEF LibraryInv, EmbeddingTyped, TasksTyped, TableTyped, CallStates, Fates, LibTypeOK
<1>2. QED
  BY <1>1, LibraryInvariance, PTL

\* An embedding call fails for want of the input_type only if another call was in
\* flight with it.
THEOREM OnlyMetAreRefused == SetupSpec => []RefusedOnlyMet
BY LibraryInvariance, PTL DEF LibraryInv, CallsMeet

\* A document no search can find is an upload, or a clone of one that once had no
\* chunk or was deleted: setup never leaves one behind, however its runs and the
\* clients' requests interleave.
THEOREM ChunklessAreExplained == SetupSpec => []ChunklessExplained
BY LibraryInvariance, PTL DEF LibraryInv, BareKept

-----------------------------------------------------------------------------
(* Seeding: what holds of the runs of setup while no two overlap.          *)

Past == {"count", "documents", "embedding", "commit"}

IsSeed(d) == d \in Present /\ doc[d].from = "seed"

\* Runs that do not overlap come one at a time; a run that rests plans nothing,
\* and the documents a run would make are not there before its end.
Alone ==
    /\ ~ overlapped => \A s, t \in Active : s = t
    /\ \A s \in Setup :
         /\ s \notin Active => plan[s] = NoPlan
         /\ at[s] # "embedding" => aim[s] = NoAim

Unmade == \A s \in Setup : at[s] # "over" => \A n \in Sample : doc[<<s, n>>] = Unused

\* A run past its migrations has tables under it, and past the personas it has
\* at most the roles that are there, or that it will insert.
Backed ==
    \A s \in Setup :
       /\ at[s] \in Past \union {"personas"} => tables
       /\ at[s] \in Past => found[s] <= RoleCount \/ (plan[s].personas /\ found[s] = PersonaCount)
       /\ at[s] = "commit" => found[s] >= Indexed /\ (plan[s].templates \/ templates > 0)

\* What a run will insert is not there yet.
AtMostOnce ==
    /\ personas <= 1 /\ templates <= 1
    /\ \A s \in Setup : plan[s].personas => personas = 0
    /\ \A s \in Setup : plan[s].templates => templates = 0

RolesOnce == ~ overlapped => AtMostOnce

\* What a run of setup will insert no earlier one has inserted.
Will(s, n) == <<s, n>> \in plan[s].chunks \/ (at[s] = "embedding" /\ aim[s].doc = <<s, n>>)

Absent == \A s \in Setup, n \in Sample : Will(s, n) => \A d \in Docs : IsSeed(d) => doc[d].name # n

Unique == \A d, e \in Docs : IsSeed(d) /\ IsSeed(e) /\ doc[d].name = doc[e].name => d = e

SamplesOnce == ~ overlapped => Absent /\ Unique

\* The two halves of OpTellsTruth.
PendingIsActive == ~ overlapped => (op = "pending" <=> Active # {})

SuccessIsBacked ==
    ~ overlapped => (op = "success" => /\ check_db_ready = "ready"
                                       /\ RoleCount >= Indexed /\ templates > 0)

SeedingInv == Alone /\ Unmade /\ Backed /\ RolesOnce /\ SamplesOnce /\ PendingIsActive /\ SuccessIsBacked

\* No row is ever taken back, and an overlap is not forgotten.
LEMMA OnlyMore ==
    ASSUME RunsTyped, [SetupNext]_vars
    PROVE  /\ custom' >= custom /\ personas' >= personas /\ templates' >= templates
           /\ tables => tables'
           /\ overlapped => overlapped'
<1> USE DEF RunsTyped, rows, setupVars
<1>1. ASSUME LibRequests \/ LibWork, UNCHANGED setupVars PROVE UNCHANGED <<rows, overlapped>>
  BY <1>1
<1>2. ASSUME NEW s \in Setup,
             \/ run_setup(s) \/ _run_migrations(s) \/ SeedPersonas(s) \/ CountDocuments(s)
             \/ \E n \in Sample : FoundWhole(s, n) \/ EmbedFirst(s, n)
             \/ Seeded(s) \/ NotSeeded(s) \/ SeedTemplates(s) \/ SetupFails(s)
      PROVE  /\ UNCHANGED <<custom, personas, templates>>
             /\ tables => tables'
             /\ overlapped => overlapped'
  BY <1>2 DEF run_setup, _run_migrations, SeedPersonas, CountDocuments, FoundWhole, EmbedFirst,
              Seeded, NotSeeded, SeedTemplates, SetupFails, Over
<1>3. ASSUME NEW s \in Setup, CommitSeed(s)
      PROVE  /\ UNCHANGED <<tables, custom, overlapped>>
             /\ personas' >= personas /\ templates' >= templates
  BY <1>3 DEF CommitSeed, Over
<1>4. ASSUME create_role
      PROVE  custom' >= custom /\ UNCHANGED <<tables, personas, templates, overlapped>>
  BY <1>4 DEF create_role
<1>5. ASSUME Restart \/ UNCHANGED vars PROVE UNCHANGED <<rows, overlapped>>
  BY <1>5 DEF Restart, vars
<1>6. QED
  BY <1>1, <1>2, <1>3, <1>4, <1>5 DEF SetupNext, Requests, Work, SetupWork

\* More sets of personas are more roles.
LEMMA MoreRoles ==
    ASSUME NEW a \in Nat, NEW b \in Nat, b >= a
    PROVE  b * PersonaCount >= a * PersonaCount
<1>1. PersonaCount \in Nat
  BY PersonasSuffice
<1>2. PICK c \in Nat : b = a + c
  <2>1. b - a \in Nat /\ b = a + (b - a)
    OBVIOUS
  <2>2. QED
    BY <2>1
<1>3. b * PersonaCount = a * PersonaCount + c * PersonaCount
  BY <1>1, <1>2
<1>4. a * PersonaCount \in Nat /\ c * PersonaCount \in Nat /\ b * PersonaCount \in Nat
  BY <1>1, <1>2
<1>5. QED
  BY <1>3, <1>4

\* Roles only become more.
LEMMA RolesGrow ==
    ASSUME RunsTyped, RunsTyped', [SetupNext]_vars
    PROVE  RoleCount \in Nat /\ RoleCount' \in Nat /\ RoleCount' >= RoleCount
<1>1. custom' >= custom /\ personas' >= personas
  BY OnlyMore
<1>2. /\ custom \in Nat /\ custom' \in Nat /\ personas \in Nat /\ personas' \in Nat
  BY DEF RunsTyped
<1>3. personas' * PersonaCount >= personas * PersonaCount
  BY <1>1, <1>2, MoreRoles
<1>4. personas' * PersonaCount \in Nat /\ personas * PersonaCount \in Nat
  <2>1. \A a \in Nat : a * PersonaCount \in Nat
    BY PersonasSuffice
  <2>2. QED
    BY <1>2, <2>1
<1>5. RoleCount' = custom' + personas' * PersonaCount
  BY DEF RoleCount
<1>6. QED
  BY <1>1, <1>2, <1>3, <1>4, <1>5 DEF RoleCount

\* A run starts alone or notes the overlap, and leaves nothing behind when it ends.
LEMMA AloneStep ==
    ASSUME RunsTyped, Alone, [SetupNext]_vars
    PROVE  Alone'
<1> USE DEF Alone, RunsTyped, Stages, Active, rows, runVars
<1>1. ASSUME UNCHANGED setupVars \/ create_role PROVE Alone'
  BY <1>1 DEF setupVars, create_role
<1>2. ASSUME NEW s \in Setup, run_setup(s) PROVE Alone'
  <2>1. ~ overlapped' => Active = {} /\ Active' = {s}
    BY <1>2 DEF run_setup, Moves
  <2>2. Active \subseteq Active' /\ \A t \in Setup : t # s => at'[t] = at[t]
    BY <1>2 DEF run_setup, Moves
  <2>3. at'[s] = "queued" /\ at[s] = "idle" /\ UNCHANGED <<plan, aim>>
    BY <1>2 DEF run_setup, Moves
  <2>4. QED
    BY <2>1, <2>2, <2>3
<1>3. ASSUME NEW s \in Setup, s \in Active, s \in Active', UNCHANGED overlapped,
             \A t \in Setup : t # s => at'[t] = at[t] /\ plan'[t] = plan[t] /\ aim'[t] = aim[t],
             at'[s] # "embedding" => aim'[s] = NoAim
      PROVE  Alone'
  BY <1>3
<1>4. ASSUME NEW s \in Setup,
             _run_migrations(s) \/ CountDocuments(s) \/ \E n \in Sample : FoundWhole(s, n)
      PROVE  Alone'
  BY <1>4 DEF _run_migrations, CountDocuments, FoundWhole, Moves
<1>5. ASSUME NEW s \in Setup, SeedPersonas(s) PROVE Alone'
  BY <1>3, <1>5 DEF SeedPersonas, Moves
<1>6. ASSUME NEW s \in Setup, NEW n \in Sample, EmbedFirst(s, n) PROVE Alone'
  <2>1. \A t \in Setup : t # s => aim'[t] = aim[t]
    BY <1>6 DEF EmbedFirst
  <2>2. QED
    BY <1>3, <1>6, <2>1 DEF EmbedFirst, Moves
<1>7. ASSUME NEW s \in Setup, Seeded(s) \/ NotSeeded(s) PROVE Alone'
  <2>1. Embeds(s) /\ UNCHANGED overlapped /\ \A t \in Setup : t # s => plan'[t] = plan[t]
    BY <1>7 DEF Seeded, NotSeeded
  <2>2. QED
    BY <1>3, <2>1 DEF Embeds, Moves
<1>8. ASSUME NEW s \in Setup, SeedTemplates(s) PROVE Alone'
  BY <1>3, <1>8 DEF SeedTemplates, Moves
<1>9. ASSUME NEW s \in Setup, CommitSeed(s) \/ SetupFails(s) PROVE Alone'
  BY <1>9 DEF CommitSeed, SetupFails, Over
<1>10. ASSUME Restart PROVE Alone'
  BY <1>10 DEF Restart
<1>11. QED
  BY <1>1, <1>2, <1>4, <1>5, <1>6, <1>7, <1>8, <1>9, <1>10
     DEF SetupNext, Requests, Work, SetupWork, vars

\* Only the commit of the seed makes a document that setup seeded, and only it
\* makes one that a run of setup would make.
LEMMA SeedsOnlyCommitted ==
    ASSUME RunsTyped, TableTyped, BareKept, [SetupNext]_vars, \A s \in Setup : ~ CommitSeed(s)
    PROVE  /\ \A d \in Docs : IsSeed(d)' => IsSeed(d) /\ doc'[d] = doc[d]
           /\ \A d \in Setup \X Sample : doc[d] = Unused => doc'[d] = Unused
<1> DEFINE Goal == /\ \A d \in Docs : IsSeed(d)' => IsSeed(d) /\ doc'[d] = doc[d]
                   /\ \A d \in Setup \X Sample : doc[d] = Unused => doc'[d] = Unused
<1> SUFFICES Goal
  OBVIOUS
<1>1. ASSUME NEW d \in Upload, doc' = [doc EXCEPT ![d] = doc'[d]], doc'[d].from # "seed"
      PROVE  Goal
  BY <1>1, UploadsApart DEF TableTyped, IsSeed, Present, Docs
<1>2. ASSUME NEW d \in Upload, upload_document(d) PROVE Goal
  <2>1. PICK n \in Sample \union {OtherName} : doc' = [doc EXCEPT ![d] = Row(n, "upload", None, FALSE)]
    BY <1>2 DEF upload_document
  <2>2. doc'[d] = Row(n, "upload", None, FALSE)
    BY <2>1 DEF TableTyped, Docs
  <2>3. doc'[d].from = "upload"
    BY <2>2 DEF Row
  <2>4. QED
    BY <1>1, <2>1, <2>2, <2>3
<1>3. ASSUME NEW d \in Upload, CommitClone(d) PROVE Goal
  <2>1. copy[d] # NoCopy
    BY <1>3, NoRows DEF CommitClone
  <2>2. doc' = [doc EXCEPT ![d] = copy[d].row] /\ copy[d].row.from = "clone"
    BY <1>3, <2>1 DEF CommitClone, BareKept
  <2>3. doc'[d] = copy[d].row
    BY <2>2 DEF TableTyped, Docs
  <2>4. QED
    BY <1>1, <2>2, <2>3
<1>4. ASSUME NEW d \in Docs, delete_document(d) PROVE Goal
  <2>1. doc[d] \in Rows /\ doc' = [doc EXCEPT ![d] = Deleted]
    BY <1>4, NoRows DEF delete_document, Present, TableTyped
  <2>2. doc'[d] = Deleted /\ \A e \in Docs : e # d => doc'[e] = doc[e]
    BY <2>1 DEF TableTyped
  <2>3. d \notin Present' /\ doc[d] # Unused
    BY <2>1, <2>2, NoRows DEF Present
  <2>4. Setup \X Sample \subseteq Docs
    BY DEF Docs
  <2>5. QED
    BY <2>2, <2>3, <2>4 DEF IsSeed, Present
<1>5. ASSUME UNCHANGED doc PROVE Goal
  BY <1>5 DEF IsSeed, Present
<1>6. QED
  BY <1>2, <1>3, <1>4, <1>5, TableSteps
     DEF TableStep, StoreChunks, CopyChunks, clone_document, LibRestart, table

\* A run that is over stays so.
LEMMA OverStays ==
    ASSUME RunsTyped, [SetupNext]_vars, NEW s \in Setup, at[s] = "over"
    PROVE  at'[s] = "over"
<1> USE DEF RunsTyped, Moves, rows, runVars
<1>1. ASSUME UNCHANGED setupVars \/ create_role PROVE at' = at
  BY <1>1 DEF setupVars, create_role
<1>2. ASSUME NEW t \in Setup, run_setup(t) \/ SetupWork PROVE at'[s] = "over"
  BY <1>2 DEF run_setup, SetupWork, _run_migrations, SeedPersonas, CountDocuments, FoundWhole,
              EmbedFirst, Seeded, NotSeeded, Embeds, SeedTemplates, CommitSeed, SetupFails, Over
<1>3. ASSUME Restart PROVE at'[s] = "over"
  BY <1>3 DEF Restart, Active
<1>4. QED
  BY <1>1, <1>2, <1>3 DEF SetupNext, Requests, Work, vars

\* Nobody makes the documents of a run before the run is over.
LEMMA UnmadeStep ==
    ASSUME RunsTyped, TableTyped, BareKept, Unmade, [SetupNext]_vars
    PROVE  Unmade'
<1>1. \A s \in Setup : at'[s] # "over" => at[s] # "over"
  BY OverStays
<1>2. CASE \A s \in Setup : ~ CommitSeed(s)
  <2>1. \A d \in Setup \X Sample : doc[d] = Unused => doc'[d] = Unused
    BY <1>2, SeedsOnlyCommitted
  <2>2. QED
    BY <1>1, <2>1 DEF Unmade
<1>3. ASSUME NEW s \in Setup, CommitSeed(s) PROVE Unmade'
  <2>1. at'[s] = "over"
    BY <1>3 DEF CommitSeed, Over, RunsTyped
  <2>2. ASSUME NEW t \in Setup, t # s, NEW n \in Sample PROVE doc'[<<t, n>>] = doc[<<t, n>>]
    <3>1. <<t, n>> \in Docs /\ <<t, n>> \notin Inserts(s)
      BY <2>2 DEF Docs, Inserts
    <3>2. QED
      BY <1>3, <3>1, SeedCommit
  <2>3. QED
    BY <1>1, <2>1, <2>2 DEF Unmade
<1>4. QED
  BY <1>2, <1>3

\* The tables stay, and the roles a run has found stay or are its own to insert.
LEMMA BackedStep ==
    ASSUME RunsTyped, RunsTyped', Alone, Backed, [SetupNext]_vars
    PROVE  Backed'
<1> DEFINE Good(s) ==
       /\ at[s] \in Past \union {"personas"} => tables
       /\ at[s] \in Past => found[s] <= RoleCount \/ (plan[s].personas /\ found[s] = PersonaCount)
       /\ at[s] = "commit" => found[s] >= Indexed /\ (plan[s].templates \/ templates > 0)
<1>0. /\ RoleCount \in Nat /\ RoleCount' \in Nat /\ RoleCount' >= RoleCount
      /\ templates \in Nat /\ templates' \in Nat /\ templates' >= templates
      /\ tables => tables'
      /\ \A t \in Setup : found[t] \in Nat /\ found'[t] \in Nat
      /\ PersonaCount \in Nat /\ Indexed \in Nat
  BY OnlyMore, RolesGrow, PersonasSuffice DEF RunsTyped
<1>a. \A t \in Setup : Good(t)
  BY DEF Backed
<1>b. ASSUME NEW t \in Setup, at'[t] = at[t], found'[t] = found[t], plan'[t] = plan[t]
      PROVE  Good(t)'
  BY <1>0, <1>a, <1>b DEF Past
<1>1. ASSUME UNCHANGED runVars PROVE Backed'
  BY <1>1, <1>b DEF runVars, Backed
<1>c. ASSUME NEW s \in Setup, Good(s)',
             \A t \in Setup : t # s => at'[t] = at[t] /\ found'[t] = found[t] /\ plan'[t] = plan[t]
      PROVE  Backed'
  BY <1>b, <1>c DEF Backed
<1> HIDE DEF Good
<1>2. ASSUME NEW s \in Setup, at'[s] \in {"queued", "over"},
             \A t \in Setup : t # s => at'[t] = at[t] /\ found'[t] = found[t] /\ plan'[t] = plan[t]
      PROVE  Backed'
  BY <1>2, <1>c DEF Good, Past
<1>3. ASSUME NEW s \in Setup, _run_migrations(s) PROVE Backed'
  <2>1. at'[s] = "personas" /\ tables'
    BY <1>3 DEF _run_migrations, Moves, RunsTyped
  <2>2. QED
    BY <1>3, <1>c, <2>1 DEF Good, Past, _run_migrations, Moves, RunsTyped
<1>4. ASSUME NEW s \in Setup, SeedPersonas(s) PROVE Backed'
  <2>1. at[s] = "personas" /\ at'[s] = "count" /\ RoleCount' = RoleCount
    BY <1>4 DEF SeedPersonas, Moves, RunsTyped, rows, RoleCount
  <2>2. found'[s] = IF InsertPersonas THEN PersonaCount ELSE RoleCount
    BY <1>4 DEF SeedPersonas, RunsTyped
  <2>3. plan'[s].personas = InsertPersonas
    BY <1>4 DEF SeedPersonas, RunsTyped, Plans
  <2>4. Good(s)'
    <3>1. tables
      BY <1>a, <2>1 DEF Good
    <3>2. found'[s] <= RoleCount' \/ (plan'[s].personas /\ found'[s] = PersonaCount)
      BY <1>0, <2>1, <2>2, <2>3
    <3>3. QED
      BY <1>0, <2>1, <3>1, <3>2 DEF Good
  <2>5. QED
    BY <1>4, <1>c, <2>4 DEF SeedPersonas, Moves, RunsTyped
<1>5. ASSUME NEW s \in Setup, at[s] \in Past, at'[s] \in Past \ {"commit"},
             found' = found, plan'[s].personas = plan[s].personas,
             \A t \in Setup : t # s => at'[t] = at[t] /\ found'[t] = found[t] /\ plan'[t] = plan[t]
      PROVE  Backed'
  BY <1>5, <1>0, <1>a, <1>c DEF Good, Past
<1>6. ASSUME NEW s \in Setup, CountDocuments(s) \/ \E n \in Sample : EmbedFirst(s, n) PROVE Backed'
  BY <1>5, <1>6 DEF CountDocuments, EmbedFirst, Moves, RunsTyped, Past
<1>7. ASSUME NEW s \in Setup, NEW n \in Sample, FoundWhole(s, n) PROVE Backed'
  BY <1>7, <1>b DEF FoundWhole, Backed, Good
<1>8. ASSUME NEW s \in Setup, Seeded(s) \/ NotSeeded(s) PROVE Backed'
  <2>1. /\ Embeds(s) /\ found' = found
        /\ plan'[s].personas = plan[s].personas /\ \A t \in Setup : t # s => plan'[t] = plan[t]
    BY <1>8 DEF Seeded, NotSeeded, RunsTyped, Plans
  <2>2. QED
    BY <1>5, <2>1 DEF Embeds, Moves, RunsTyped, Past
<1>9. ASSUME NEW s \in Setup, SeedTemplates(s) PROVE Backed'
  <2>1. /\ at[s] = "documents" /\ at'[s] = "commit" /\ found' = found
        /\ found[s] >= Indexed /\ UNCHANGED templates
    BY <1>9 DEF SeedTemplates, Moves, RunsTyped, rows
  <2>2. plan'[s].personas = plan[s].personas /\ plan'[s].templates = (templates = 0)
    BY <1>9 DEF SeedTemplates, RunsTyped, Plans
  <2>3. Good(s)'
    <3>1. tables' /\ (found[s] <= RoleCount \/ (plan[s].personas /\ found[s] = PersonaCount))
      BY <1>0, <1>a, <2>1 DEF Good, Past
    <3>2. found'[s] <= RoleCount' \/ (plan'[s].personas /\ found'[s] = PersonaCount)
      BY <1>0, <2>1, <2>2, <3>1
    <3>3. plan'[s].templates \/ templates' > 0
      <4>1. CASE templates = 0
        BY <2>2, <4>1
      <4>2. CASE templates > 0
        BY <1>0, <4>2
      <4>3. QED
        BY <1>0, <4>1, <4>2
    <3>4. QED
      BY <2>1, <3>1, <3>2, <3>3 DEF Good
  <2>4. QED
    BY <1>9, <1>c, <2>3 DEF SeedTemplates, Moves, RunsTyped
<1>10. ASSUME NEW s \in Setup, CommitSeed(s) \/ SetupFails(s) PROVE Backed'
  <2>1. \E outcome \in {"success", "error"} : Over(s, outcome)
    BY <1>10 DEF CommitSeed, SetupFails
  <2>2. QED
    BY <1>2, <2>1 DEF Over, RunsTyped
<1>11. ASSUME NEW s \in Setup, run_setup(s) PROVE Backed'
  BY <1>2, <1>11 DEF run_setup, Moves, RunsTyped
<1>12. ASSUME Restart PROVE Backed'
  <2>1. \A s \in Setup : at'[s] \in {"idle", "over"}
    BY <1>12 DEF Restart, Active
  <2>2. QED
    BY <2>1 DEF Backed, Past
<1>13. QED
  BY <1>1, <1>3, <1>4, <1>6, <1>7, <1>8, <1>9, <1>10, <1>11, <1>12
     DEF SetupNext, Requests, Work, SetupWork, vars, setupVars, create_role

\* The plans of the runs that are not under way hold nothing.
LEMMA OnlyOnePlans ==
    ASSUME Alone, ~ overlapped, NEW s \in Active, NEW t \in Setup, t # s
    PROVE  plan[t] = NoPlan /\ aim[t] = NoAim /\ t \notin Active
<1>1. t \notin Active
  BY DEF Alone
<1>2. QED
  BY <1>1 DEF Alone, Active

\* A lone run inserts personas and templates only where there are none.
LEMMA RolesOnceStep ==
    ASSUME RunsTyped, Alone, RolesOnce, [SetupNext]_vars
    PROVE  RolesOnce'
<1> SUFFICES ASSUME ~ overlapped' PROVE AtMostOnce'
  BY DEF RolesOnce
<1>0. /\ ~ overlapped
      /\ AtMostOnce
      /\ personas \in Nat /\ templates \in Nat
      /\ ~ NoPlan.personas /\ ~ NoPlan.templates
  BY OnlyMore DEF RolesOnce, RunsTyped, NoPlan
<1>1. ASSUME UNCHANGED <<personas, templates>>,
             \A t \in Setup : \/ plan'[t] = NoPlan
                              \/ /\ plan'[t].personas = plan[t].personas
                                 /\ plan'[t].templates = plan[t].templates
      PROVE  AtMostOnce'
  BY <1>0, <1>1 DEF AtMostOnce
<1>2. ASSUME UNCHANGED setupVars PROVE AtMostOnce'
  BY <1>1, <1>2 DEF setupVars, rows, runVars
<1>3. ASSUME create_role PROVE AtMostOnce'
  BY <1>1, <1>3 DEF create_role, runVars
<1>4. ASSUME NEW s \in Setup, run_setup(s) \/ _run_migrations(s) \/ CountDocuments(s) PROVE AtMostOnce'
  BY <1>1, <1>4 DEF run_setup, _run_migrations, CountDocuments, rows
<1>5. ASSUME NEW s \in Setup, NEW n \in Sample, FoundWhole(s, n) \/ EmbedFirst(s, n) PROVE AtMostOnce'
  BY <1>1, <1>5 DEF FoundWhole, EmbedFirst, rows
<1>6. ASSUME NEW s \in Setup, SeedPersonas(s) PROVE AtMostOnce'
  <2>1. UNCHANGED <<personas, templates>>
    BY <1>6 DEF SeedPersonas, rows
  <2>2. plan'[s].personas = InsertPersonas /\ plan'[s].templates = plan[s].templates
    BY <1>6 DEF SeedPersonas, RunsTyped, Plans
  <2>3. \A t \in Setup : t # s => plan'[t] = plan[t]
    BY <1>6 DEF SeedPersonas
  <2>4. InsertPersonas => personas = 0
    BY Roles DEF InsertPersonas, RunsTyped
  <2>5. plan'[s].personas => personas = 0
    BY <2>2, <2>4
  <2>6. \A t \in Setup : plan'[t].personas => personas' = 0
    BY <1>0, <2>1, <2>3, <2>5 DEF AtMostOnce
  <2>7. \A t \in Setup : plan'[t].templates => templates' = 0
    BY <1>0, <2>1, <2>2, <2>3 DEF AtMostOnce
  <2>8. QED
    BY <1>0, <2>1, <2>6, <2>7 DEF AtMostOnce
<1>7. ASSUME NEW s \in Setup, Seeded(s) \/ NotSeeded(s) PROVE AtMostOnce'
  <2>1. /\ UNCHANGED <<personas, templates>>
        /\ plan'[s].personas = plan[s].personas /\ plan'[s].templates = plan[s].templates
        /\ \A t \in Setup : t # s => plan'[t] = plan[t]
    BY <1>7 DEF Seeded, NotSeeded, RunsTyped, Plans, rows
  <2>2. QED
    BY <1>1, <2>1
<1>8. ASSUME NEW s \in Setup, SeedTemplates(s) PROVE AtMostOnce'
  <2>1. UNCHANGED <<personas, templates>>
    BY <1>8 DEF SeedTemplates, rows
  <2>2. plan'[s].templates = (templates = 0) /\ plan'[s].personas = plan[s].personas
    BY <1>8 DEF SeedTemplates, RunsTyped, Plans
  <2>3. \A t \in Setup : t # s => plan'[t] = plan[t]
    BY <1>8 DEF SeedTemplates
  <2>4. \A t \in Setup : plan'[t].personas => personas' = 0
    BY <1>0, <2>1, <2>2, <2>3 DEF AtMostOnce
  <2>5. \A t \in Setup : plan'[t].templates => templates' = 0
    BY <1>0, <2>1, <2>2, <2>3 DEF AtMostOnce
  <2>6. QED
    BY <1>0, <2>1, <2>4, <2>5 DEF AtMostOnce
<1>9. ASSUME NEW s \in Setup, CommitSeed(s) PROVE AtMostOnce'
  <2>1. \A t \in Setup : plan'[t] = NoPlan
    <3>1. s \in Active
      BY <1>9 DEF CommitSeed, Active
    <3>2. \A t \in Setup : t # s => plan[t] = NoPlan
      BY <1>0, <3>1, OnlyOnePlans
    <3>3. plan' = [plan EXCEPT ![s] = NoPlan]
      BY <1>9 DEF CommitSeed, Over
    <3>4. QED
      BY <3>2, <3>3 DEF RunsTyped
  <2>2. personas' <= 1
    <3>1. personas' = personas + (IF plan[s].personas THEN 1 ELSE 0)
      BY <1>9 DEF CommitSeed
    <3>2. CASE plan[s].personas
      <4>1. personas = 0 /\ personas' = personas + 1
        BY <1>0, <3>1, <3>2 DEF AtMostOnce
      <4>2. QED
        BY <4>1
    <3>3. CASE ~ plan[s].personas
      <4>1. personas' = personas + 0
        BY <3>1, <3>3
      <4>2. QED
        BY <1>0, <4>1 DEF AtMostOnce
    <3>4. QED
      BY <3>2, <3>3
  <2>3. templates' <= 1
    <3>1. templates' = templates + (IF plan[s].templates THEN 1 ELSE 0)
      BY <1>9 DEF CommitSeed
    <3>2. CASE plan[s].templates
      <4>1. templates = 0 /\ templates' = templates + 1
        BY <1>0, <3>1, <3>2 DEF AtMostOnce
      <4>2. QED
        BY <4>1
    <3>3. CASE ~ plan[s].templates
      <4>1. templates' = templates + 0
        BY <3>1, <3>3
      <4>2. QED
        BY <1>0, <4>1 DEF AtMostOnce
    <3>4. QED
      BY <3>2, <3>3
  <2>4. QED
    BY <1>0, <2>1, <2>2, <2>3 DEF AtMostOnce
<1>10. ASSUME NEW s \in Setup, SetupFails(s) PROVE AtMostOnce'
  <2>1. plan' = [plan EXCEPT ![s] = NoPlan] /\ UNCHANGED <<personas, templates>>
    BY <1>10 DEF SetupFails, Over, rows
  <2>2. \A t \in Setup : plan'[t] = NoPlan \/ plan'[t] = plan[t]
    BY <2>1 DEF RunsTyped
  <2>3. QED
    BY <1>1, <2>1, <2>2
<1>11. ASSUME Restart PROVE AtMostOnce'
  BY <1>1, <1>11 DEF Restart, rows
<1>12. QED
  BY <1>2, <1>3, <1>4, <1>5, <1>6, <1>7, <1>8, <1>9, <1>10, <1>11
     DEF SetupNext, Requests, Work, SetupWork, vars

\* A run comes to want a document of its own only where there is none of the name.
LEMMA WantedIfAbsent ==
    ASSUME RunsTyped, Alone, Unmade, [SetupNext]_vars,
           NEW t \in Setup, NEW n \in Sample, Will(t, n)', ~ Will(t, n)
    PROVE  Named(n) = {} /\ \A s \in Setup : ~ CommitSeed(s)
<1> DEFINE Goal == Named(n) = {} /\ \A s \in Setup : ~ CommitSeed(s)
<1> USE DEF Will, RunsTyped, Moves
<1>0. NoPlan.chunks = {}
  BY DEF NoPlan
<1>1. ASSUME UNCHANGED <<at, aim, plan>> PROVE FALSE
  BY <1>1
<1>2. ASSUME NEW s \in Setup, at'[s] # "embedding", \A r \in Setup : r # s => at'[r] = at[r],
             UNCHANGED aim, \A r \in Setup : plan'[r].chunks \subseteq plan[r].chunks
      PROVE FALSE
  BY <1>2
<1>3. ASSUME NEW s \in Setup, run_setup(s) \/ _run_migrations(s) \/ CountDocuments(s) PROVE FALSE
  BY <1>2, <1>3 DEF run_setup, _run_migrations, CountDocuments, runVars
<1>4. ASSUME NEW s \in Setup, SeedPersonas(s) \/ SeedTemplates(s) PROVE FALSE
  <2>1. \A r \in Setup : plan'[r].chunks = plan[r].chunks
    BY <1>4 DEF SeedPersonas, SeedTemplates, Plans
  <2>2. QED
    BY <1>2, <1>4, <2>1 DEF SeedPersonas, SeedTemplates
<1>5. ASSUME NEW s \in Setup, CommitSeed(s) \/ SetupFails(s) PROVE FALSE
  <2>1. \A r \in Setup : plan'[r].chunks \subseteq plan[r].chunks
    BY <1>0, <1>5 DEF CommitSeed, SetupFails, Over
  <2>2. QED
    BY <1>2, <1>5, <2>1 DEF CommitSeed, SetupFails, Over
<1>6. ASSUME NEW s \in Setup, NEW m \in Sample, FoundWhole(s, m) PROVE FALSE
  BY <1>1, <1>6 DEF FoundWhole
<1>7. ASSUME NEW s \in Setup, Seeded(s) \/ NotSeeded(s) PROVE FALSE
  <2>1. /\ at[s] = "embedding" /\ at'[s] = "documents"
        /\ \A r \in Setup : r # s => at'[r] = at[r] /\ aim'[r] = aim[r] /\ plan'[r] = plan[r]
    BY <1>7 DEF Seeded, NotSeeded, Embeds
  <2>2. plan'[s].chunks \subseteq plan[s].chunks \union {aim[s].doc}
    BY <1>7 DEF Seeded, NotSeeded, Plans
  <2>3. QED
    BY <2>1, <2>2
<1>8. ASSUME NEW s \in Setup, NEW m \in Sample, EmbedFirst(s, m) PROVE Goal
  <2>1. PICK d \in (Named(m) \ chunks) \union (IF Named(m) = {} THEN {<<s, m>>} ELSE {}) :
          aim' = [aim EXCEPT ![s] = [name |-> m, doc |-> d]]
    BY <1>8 DEF EmbedFirst
  <2>2. at[s] = "documents" /\ UNCHANGED plan /\ \A r \in Setup : r # s => at'[r] = at[r]
    BY <1>8 DEF EmbedFirst
  <2>3. t = s
    <3>1. \A r \in Setup : r # s => aim'[r] = aim[r]
      BY <2>1
    <3>2. QED
      BY <2>2, <3>1
  <2>4. aim'[s].doc = d
    BY <2>1
  <2>5. d = <<s, n>>
    BY <2>2, <2>3, <2>4
  <2>6. doc[d] = Unused
    BY <2>2, <2>5 DEF Unmade
  <2>7. d \notin Named(m)
    BY <2>6, NoRows DEF Named, Present
  <2>8. Named(m) = {} /\ d = <<s, m>>
    BY <2>1, <2>7
  <2>9. m = n
    BY <2>5, <2>8
  <2>10. \A r \in Setup : ~ CommitSeed(r)
    BY <2>2, <1>8 DEF EmbedFirst, CommitSeed, Over
  <2>11. QED
    BY <2>8, <2>9, <2>10
<1>9. ASSUME Restart PROVE FALSE
  BY <1>0, <1>9 DEF Restart, Active
<1>10. QED
  BY <1>1, <1>3, <1>4, <1>5, <1>6, <1>7, <1>8, <1>9
     DEF SetupNext, Requests, Work, SetupWork, vars, setupVars, runVars, create_role

\* A lone run inserts a sample only where it has not been inserted.
LEMMA SamplesOnceStep ==
    ASSUME RunsTyped, TableTyped, BareKept, Alone, Unmade, SamplesOnce, [SetupNext]_vars
    PROVE  SamplesOnce'
<1> SUFFICES ASSUME ~ overlapped' PROVE Absent' /\ Unique'
  BY DEF SamplesOnce
<1>1. ~ overlapped /\ Absent /\ Unique
  BY OnlyMore DEF SamplesOnce
<1>2. CASE \A s \in Setup : ~ CommitSeed(s)
  <2>1. \A d \in Docs : IsSeed(d)' => IsSeed(d) /\ doc'[d] = doc[d]
    BY <1>2, SeedsOnlyCommitted
  <2>2. Unique'
    BY <1>1, <2>1 DEF Unique
  <2>3. ASSUME NEW t \in Setup, NEW n \in Sample, Will(t, n)', NEW d \in Docs, IsSeed(d)'
        PROVE  doc'[d].name # n
    <3>1. CASE Will(t, n)
      BY <1>1, <2>1, <2>3, <3>1 DEF Absent
    <3>2. CASE ~ Will(t, n)
      <4>1. Named(n) = {}
        BY <2>3, <3>2, WantedIfAbsent
      <4>2. QED
        BY <2>1, <2>3, <4>1 DEF Named, IsSeed
    <3>3. QED
      BY <3>1, <3>2
  <2>4. QED
    BY <2>2, <2>3 DEF Absent
<1>3. ASSUME NEW s \in Setup, CommitSeed(s) PROVE Absent' /\ Unique'
  <2>1. s \in Active
    BY <1>3 DEF CommitSeed, Active
  <2>2. \A t \in Setup, n \in Sample : ~ Will(t, n)'
    <3>1. \A t \in Setup : t # s => plan[t] = NoPlan /\ t \notin Active
      BY <1>1, <2>1, OnlyOnePlans
    <3>2. plan' = [plan EXCEPT ![s] = NoPlan] /\ at' = [at EXCEPT ![s] = "over"]
      BY <1>3 DEF CommitSeed, Over
    <3>3. \A t \in Setup : plan'[t] = NoPlan
      BY <3>1, <3>2 DEF RunsTyped
    <3>4. \A t \in Setup : at'[t] # "embedding"
      BY <3>1, <3>2 DEF RunsTyped, Active
    <3>5. NoPlan.chunks = {}
      BY DEF NoPlan
    <3>6. QED
      BY <3>3, <3>4, <3>5 DEF Will
  <2>3. Absent'
    BY <2>2 DEF Absent
  <2>4. ASSUME NEW d \in Docs, IsSeed(d)'
        PROVE  \/ IsSeed(d) /\ doc'[d] = doc[d]
               \/ \E n \in Sample : d = <<s, n>> /\ doc'[d].name = n /\ Will(s, n)
    <3>1. CASE d \in Inserts(s)
      <4>1. PICK n \in Sample : d = <<s, n>>
        BY <3>1 DEF Inserts
      <4>2. doc'[d] = Row(n, "seed", None, TRUE)
        BY <1>3, <3>1, <4>1, SeedCommit
      <4>3. doc'[d].name = n
        BY <4>2 DEF Row
      <4>4. Will(s, n)
        BY <3>1, <4>1 DEF Inserts, Will
      <4>5. QED
        BY <4>1, <4>3, <4>4
    <3>2. CASE d \notin Inserts(s)
      <4>1. doc'[d] = doc[d]
        BY <1>3, <3>2, SeedCommit
      <4>2. QED
        BY <2>4, <4>1 DEF IsSeed, Present
    <3>3. QED
      BY <3>1, <3>2
  <2>5. Unique'
    <3> SUFFICES ASSUME NEW d \in Docs, NEW e \in Docs, IsSeed(d)', IsSeed(e)',
                        doc'[d].name = doc'[e].name
                 PROVE  d = e
      BY DEF Unique
    <3>1. CASE IsSeed(d) /\ doc'[d] = doc[d] /\ IsSeed(e) /\ doc'[e] = doc[e]
      BY <1>1, <3>1 DEF Unique
    <3>2. ASSUME NEW n \in Sample, d = <<s, n>>, doc'[d].name = n, Will(s, n) PROVE d = e
      <4>1. ~ (IsSeed(e) /\ doc'[e] = doc[e])
        BY <1>1, <3>2 DEF Absent
      <4>2. QED
        BY <2>4, <3>2, <4>1
    <3>3. ASSUME NEW n \in Sample, e = <<s, n>>, doc'[e].name = n, Will(s, n) PROVE d = e
      <4>1. ~ (IsSeed(d) /\ doc'[d] = doc[d])
        BY <1>1, <3>3 DEF Absent
      <4>2. QED
        BY <2>4, <3>3, <4>1
    <3>4. QED
      BY <2>4, <3>1, <3>2, <3>3
  <2>6. QED
    BY <2>3, <2>5
<1>4. QED
  BY <1>2, <1>3

\* The outcome is pending from the request to the end of a lone run.
LEMMA PendingStep ==
    ASSUME RunsTyped, Alone, PendingIsActive, [SetupNext]_vars
    PROVE  PendingIsActive'
<1> SUFFICES ASSUME ~ overlapped' PROVE op' = "pending" <=> Active' # {}
  BY DEF PendingIsActive
<1>1. ~ overlapped /\ (op = "pending" <=> Active # {})
  BY OnlyMore DEF PendingIsActive
<1> USE DEF RunsTyped, Active, Moves
<1>2. ASSUME UNCHANGED <<op, at>> PROVE op' = "pending" <=> Active' # {}
  BY <1>1, <1>2
<1>3. ASSUME NEW s \in Setup, run_setup(s) PROVE op' = "pending" <=> Active' # {}
  BY <1>3 DEF run_setup
<1>4. ASSUME NEW s \in Setup, s \in Active, at'[s] \in Stages \ {"idle", "over"}, UNCHANGED op
      PROVE  op' = "pending" <=> Active' # {}
  BY <1>1, <1>4
<1>5. ASSUME NEW s \in Setup, _run_migrations(s) \/ SeedPersonas(s) \/ CountDocuments(s) \/ SeedTemplates(s)
      PROVE  op' = "pending" <=> Active' # {}
  BY <1>4, <1>5 DEF _run_migrations, SeedPersonas, CountDocuments, SeedTemplates, Stages
<1>6. ASSUME NEW s \in Setup, NEW n \in Sample, FoundWhole(s, n) PROVE op' = "pending" <=> Active' # {}
  BY <1>2, <1>6 DEF FoundWhole
<1>7. ASSUME NEW s \in Setup, NEW n \in Sample, EmbedFirst(s, n) PROVE op' = "pending" <=> Active' # {}
  BY <1>4, <1>7 DEF EmbedFirst, Stages
<1>8. ASSUME NEW s \in Setup, Seeded(s) \/ NotSeeded(s) PROVE op' = "pending" <=> Active' # {}
  BY <1>4, <1>8 DEF Seeded, NotSeeded, Embeds, Stages
<1>9. ASSUME NEW s \in Setup, s \in Active, NEW outcome \in {"success", "error"}, Over(s, outcome)
      PROVE  op' = "pending" <=> Active' # {}
  <2>1. \A t \in Setup : t # s => t \notin Active
    BY <1>1, <1>9, OnlyOnePlans
  <2>2. at' = [at EXCEPT ![s] = "over"] /\ op' = outcome
    BY <1>9 DEF Over
  <2>3. QED
    BY <2>1, <2>2
<1>10. ASSUME NEW s \in Setup, CommitSeed(s) \/ SetupFails(s) PROVE op' = "pending" <=> Active' # {}
  BY <1>9, <1>10 DEF CommitSeed, SetupFails
<1>11. ASSUME Restart PROVE op' = "pending" <=> Active' # {}
  BY <1>11 DEF Restart
<1>12. QED
  BY <1>2, <1>3, <1>5, <1>6, <1>7, <1>8, <1>10, <1>11
     DEF SetupNext, Requests, Work, SetupWork, vars, setupVars, runVars, create_role

\* A success is reported with the rows it claims, and they stay.
LEMMA SuccessStep ==
    ASSUME RunsTyped, RunsTyped', Backed, SuccessIsBacked, [SetupNext]_vars
    PROVE  SuccessIsBacked'
<1> SUFFICES ASSUME ~ overlapped', op' = "success"
             PROVE  check_db_ready' = "ready" /\ RoleCount' >= Indexed /\ templates' > 0
  BY DEF SuccessIsBacked
<1>1. /\ RoleCount \in Nat /\ RoleCount' \in Nat /\ RoleCount' >= RoleCount
      /\ templates \in Nat /\ templates' \in Nat /\ templates' >= templates
      /\ tables => tables'
      /\ ~ overlapped
      /\ Indexed \in Nat /\ Indexed > 0 /\ PersonaCount \in Nat /\ PersonaCount >= Indexed
  BY OnlyMore, RolesGrow, PersonasSuffice DEF RunsTyped
<1>2. ASSUME tables', RoleCount' >= Indexed PROVE check_db_ready' = "ready"
  BY <1>1, <1>2 DEF check_db_ready
<1>3. CASE op = "success"
  <2>1. check_db_ready = "ready" /\ RoleCount >= Indexed /\ templates > 0
    BY <1>1, <1>3 DEF SuccessIsBacked
  <2>2. tables
    BY <2>1 DEF check_db_ready
  <2>3. RoleCount' >= Indexed /\ templates' > 0
    BY <1>1, <2>1
  <2>4. QED
    BY <1>1, <1>2, <2>2, <2>3
<1>4. ASSUME NEW s \in Setup, CommitSeed(s)
      PROVE  check_db_ready' = "ready" /\ RoleCount' >= Indexed /\ templates' > 0
  <2>1. /\ tables /\ found[s] \in Nat /\ found[s] >= Indexed
        /\ found[s] <= RoleCount \/ (plan[s].personas /\ found[s] = PersonaCount)
        /\ plan[s].templates \/ templates > 0
    BY <1>4 DEF CommitSeed, Backed, Past, RunsTyped
  <2>2. RoleCount' >= Indexed
    <3>1. CASE found[s] <= RoleCount
      BY <1>1, <2>1, <3>1
    <3>2. CASE plan[s].personas
      <4>1. personas' = personas + (IF plan[s].personas THEN 1 ELSE 0)
        BY <1>4 DEF CommitSeed
      <4>2. personas' = personas + 1
        BY <3>2, <4>1
      <4>3. personas' \in Nat /\ custom' \in Nat /\ personas' >= 1
        BY <4>2 DEF RunsTyped
      <4>4. personas' * PersonaCount >= 1 * PersonaCount
        BY <4>3, MoreRoles
      <4>5. \A a \in Nat : a * PersonaCount \in Nat
        BY <1>1
      <4>6. personas' * PersonaCount \in Nat
        BY <4>3, <4>5
      <4>7. 1 * PersonaCount = PersonaCount
        BY <1>1
      <4>8. personas' * PersonaCount >= PersonaCount
        BY <4>4, <4>7
      <4>9. \A x, y, p, i \in Nat : y >= p /\ p >= i => x + y >= i
        OBVIOUS
      <4>10. custom' + personas' * PersonaCount >= Indexed
        BY <1>1, <4>3, <4>6, <4>8, <4>9
      <4>11. QED
        BY <4>10 DEF RoleCount
    <3>3. QED
      BY <2>1, <3>1, <3>2
  <2>3. templates' > 0
    <3>1. templates' = templates + (IF plan[s].templates THEN 1 ELSE 0)
      BY <1>4 DEF CommitSeed
    <3>2. CASE plan[s].templates
      <4>1. templates' = templates + 1
        BY <3>1, <3>2
      <4>2. QED
        BY <1>1, <4>1
    <3>3. CASE templates > 0
      BY <1>1, <3>3
    <3>4. QED
      BY <2>1, <3>2, <3>3
  <2>4. QED
    BY <1>1, <1>2, <2>1, <2>2, <2>3
<1>5. ASSUME NEW s \in Setup, run_setup(s) \/ SetupFails(s) PROVE FALSE
  BY <1>5 DEF run_setup, SetupFails, Over
<1>6. ASSUME NEW s \in Setup,
             \/ _run_migrations(s) \/ SeedPersonas(s) \/ CountDocuments(s)
             \/ \E n \in Sample : FoundWhole(s, n) \/ EmbedFirst(s, n)
             \/ Seeded(s) \/ NotSeeded(s) \/ SeedTemplates(s)
      PROVE  op = "success"
  BY <1>6 DEF _run_migrations, SeedPersonas, CountDocuments, FoundWhole, EmbedFirst,
              Seeded, NotSeeded, SeedTemplates
<1>7. ASSUME Restart PROVE FALSE
  BY <1>7 DEF Restart
<1>8. QED
  BY <1>3, <1>4, <1>5, <1>6, <1>7
     DEF SetupNext, Requests, Work, SetupWork, vars, setupVars, create_role

-----------------------------------------------------------------------------
\* What holds of seeding while no two runs of setup overlap.
THEOREM SeedingInvariance == SetupSpec => []SeedingInv
<1>1. LibInit /\ SetupInit => SeedingInv
  <2> SUFFICES ASSUME LibInit, SetupInit PROVE SeedingInv
    OBVIOUS
  <2>1. Active = {}
    BY DEF SetupInit, Active
  <2>2. Alone
    BY <2>1 DEF SetupInit, Alone
  <2>3. Unmade
    BY DEF LibInit, Unmade, Docs
  <2>4. Backed
    BY DEF SetupInit, Backed, Past
  <2>5. RolesOnce
    BY DEF SetupInit, RolesOnce, AtMostOnce, NoPlan
  <2>6. SamplesOnce
    <3>1. \A d \in Docs : ~ IsSeed(d)
      BY NoRows DEF LibInit, IsSeed, Present
    <3>2. QED
      BY <3>1 DEF SamplesOnce, Absent, Unique
  <2>7. PendingIsActive /\ SuccessIsBacked
    BY <2>1 DEF SetupInit, PendingIsActive, SuccessIsBacked
  <2>8. QED
    BY <2>2, <2>3, <2>4, <2>5, <2>6, <2>7 DEF SeedingInv
<1>2. LibraryInv /\ LibraryInv' /\ SeedingInv /\ [SetupNext]_vars => SeedingInv'
  BY AloneStep, UnmadeStep, BackedStep, RolesOnceStep, SamplesOnceStep, PendingStep, SuccessStep
     DEF LibraryInv, SeedingInv
<1>3. QED
  BY <1>1, <1>2, LibraryInvariance, PTL DEF SetupSpec

\* While no two runs overlap, one set of personas, one of built-in templates and
\* one document per sample, however often setup is asked for, fails or dies.
THEOREM SeedsOnce == SetupSpec => []SeededOnce
<1>1. SeedingInv => SeededOnce
  BY DEF SeedingInv, RolesOnce, AtMostOnce, SamplesOnce, Unique, IsSeed, SeededOnce, Present
<1>2. QED
  BY <1>1, SeedingInvariance, PTL

\* While no two runs overlap, the status page's outcome of setup is so.
THEOREM StatusIsTrue == SetupSpec => []OpTellsTruth
<1>1. SeedingInv => OpTellsTruth
  BY DEF SeedingInv, PendingIsActive, SuccessIsBacked, OpTellsTruth
<1>2. QED
  BY <1>1, SeedingInvariance, PTL

-----------------------------------------------------------------------------
(* The refinement of Shelf.                                                *)

\* A clone that is being made has an id nobody used, and the row of its source
\* as long as that is there; a background task works on an upload.
CopiesTrue ==
    \A d \in Upload : copy[d] # NoCopy =>
       /\ doc[d] = Unused
       /\ copy[d].src \in Present =>
             copy[d].row.name = doc[copy[d].src].name /\ copy[d].row.marked = doc[copy[d].src].marked

TasksTrue ==
    \A d \in Upload : ingest[d] # "none" =>
       doc[d] # Unused /\ (d \in Present => doc[d].from = "upload")

ShelfInv == Unmade /\ CopiesTrue /\ TasksTrue

\* No id is used twice: a row stays as it is until it is deleted, and that is the
\* end of it.
LEMMA RowsStay ==
    ASSUME RunsTyped, TableTyped, Unmade, CopiesTrue, TableStep, NEW e \in Docs, doc[e] # Unused
    PROVE  doc'[e] # Unused /\ (e \in Present' => e \in Present /\ doc'[e] = doc[e])
<1> DEFINE Goal == doc'[e] # Unused /\ (e \in Present' => e \in Present /\ doc'[e] = doc[e])
<1> SUFFICES Goal
  OBVIOUS
<1>1. ASSUME doc'[e] = doc[e] PROVE Goal
  BY <1>1 DEF Present
<1> HIDE DEF Goal
<1>2. ASSUME NEW d \in Upload, upload_document(d) PROVE Goal
  <2>1. doc[d] = Unused /\ \E n : doc' = [doc EXCEPT ![d] = Row(n, "upload", None, FALSE)]
    BY <1>2 DEF upload_document, Fresh
  <2>2. QED
    BY <1>1, <2>1 DEF TableTyped
<1>3. ASSUME NEW d \in Upload, CommitClone(d) PROVE Goal
  <2>1. copy[d] # NoCopy /\ doc' = [doc EXCEPT ![d] = copy[d].row]
    BY <1>3, NoRows DEF CommitClone
  <2>2. d # e
    BY <2>1 DEF CopiesTrue
  <2>3. QED
    BY <1>1, <2>1, <2>2 DEF TableTyped
<1>4. ASSUME NEW d \in Docs, delete_document(d) PROVE Goal
  <2>1. doc' = [doc EXCEPT ![d] = Deleted]
    BY <1>4 DEF delete_document
  <2>2. CASE d = e
    <3>1. doc'[e] = Deleted
      BY <2>1, <2>2 DEF TableTyped
    <3>2. QED
      BY <3>1, NoRows DEF Goal, Present
  <2>3. CASE d # e
    BY <1>1, <2>1, <2>3 DEF TableTyped
  <2>4. QED
    BY <2>2, <2>3
<1>5. ASSUME NEW s \in Setup, CommitSeed(s) PROVE Goal
  <2>1. at[s] = "commit"
    BY <1>5 DEF CommitSeed
  <2>2. \A n \in Sample : doc[<<s, n>>] = Unused
    BY <2>1 DEF Unmade
  <2>3. e \notin Inserts(s)
    BY <2>2 DEF Inserts
  <2>4. QED
    BY <1>1, <1>5, <2>3, SeedCommit
<1>6. ASSUME UNCHANGED doc PROVE Goal
  BY <1>1, <1>6
<1>7. QED
  BY <1>2, <1>3, <1>4, <1>5, <1>6
     DEF TableStep, StoreChunks, CopyChunks, clone_document, LibRestart, table

\* A clone that is being made has just begun, or was being made of the same row.
LEMMA CopiesGoOn ==
    ASSUME TableTyped, TableStep, NEW e \in Upload, copy'[e] # NoCopy
    PROVE  \/ copy[e] # NoCopy /\ copy'[e].src = copy[e].src /\ copy'[e].row = copy[e].row
           \/ \E s \in Docs : clone_document(e, s)
<1> DEFINE Goal == \/ copy[e] # NoCopy /\ copy'[e].src = copy[e].src /\ copy'[e].row = copy[e].row
                   \/ \E s \in Docs : clone_document(e, s)
<1> SUFFICES Goal
  OBVIOUS
<1>1. ASSUME copy'[e] = copy[e] PROVE Goal
  BY <1>1
<1>2. ASSUME NEW d \in Upload, NEW s \in Docs, clone_document(d, s) PROVE Goal
  <2>1. CASE d = e
    BY <1>2, <2>1
  <2>2. CASE d # e
    BY <1>1, <1>2, <2>2 DEF clone_document, TableTyped
  <2>3. QED
    BY <2>1, <2>2
<1> HIDE DEF Goal
<1>3. ASSUME NEW d \in Upload, CopyChunks(d) PROVE Goal
  <2>1. CASE d = e
    <3>1. copy[e] # NoCopy
      BY <1>3, <2>1, NoRows DEF CopyChunks
    <3>2. copy'[e].src = copy[e].src /\ copy'[e].row = copy[e].row
      BY <1>3, <2>1, CopiedChunks
    <3>3. QED
      BY <3>1, <3>2 DEF Goal
  <2>2. CASE d # e
    BY <1>1, <1>3, <2>2, CopiedChunks
  <2>3. QED
    BY <2>1, <2>2
<1>4. ASSUME NEW d \in Upload, CommitClone(d) PROVE Goal
  <2>1. copy' = [copy EXCEPT ![d] = NoCopy]
    BY <1>4 DEF CommitClone
  <2>2. d # e
    BY <2>1 DEF TableTyped
  <2>3. QED
    BY <1>1, <2>1, <2>2 DEF TableTyped
<1>5. CASE LibRestart
  BY <1>5 DEF LibRestart
<1>6. ASSUME UNCHANGED copy PROVE Goal
  BY <1>1, <1>6
<1>7. QED
  BY <1>2, <1>3, <1>4, <1>5, <1>6
     DEF TableStep, upload_document, StoreChunks, delete_document, CommitSeed, tasks, table

\* The id of a clone that is being made is left to it.
LEMMA CopiesLeftAlone ==
    ASSUME RunsTyped, TableTyped, TableStep, NEW e \in Upload, doc[e] = Unused, copy'[e] # NoCopy
    PROVE  doc'[e] = Unused
<1>1. ASSUME NEW d \in Upload, upload_document(d) PROVE doc'[e] = Unused
  <2>1. copy[d] = NoCopy /\ copy' = copy
    BY <1>1 DEF upload_document, Fresh
  <2>2. d # e
    BY <2>1
  <2>3. \E n : doc' = [doc EXCEPT ![d] = Row(n, "upload", None, FALSE)]
    BY <1>1 DEF upload_document
  <2>4. QED
    BY <2>2, <2>3 DEF TableTyped, Docs
<1>2. ASSUME NEW d \in Upload, CommitClone(d) PROVE doc'[e] = Unused
  <2>1. copy' = [copy EXCEPT ![d] = NoCopy] /\ doc' = [doc EXCEPT ![d] = copy[d].row]
    BY <1>2 DEF CommitClone
  <2>2. QED
    BY <2>1 DEF TableTyped
<1>3. ASSUME NEW d \in Docs, delete_document(d) PROVE doc'[e] = Unused
  <2>1. d \in Present /\ doc' = [doc EXCEPT ![d] = Deleted]
    BY <1>3 DEF delete_document
  <2>2. d # e
    BY <2>1, NoRows DEF Present
  <2>3. QED
    BY <2>1, <2>2 DEF TableTyped
<1>4. ASSUME NEW s \in Setup, CommitSeed(s) PROVE doc'[e] = Unused
  <2>1. e \in Docs /\ e \notin Inserts(s)
    BY UploadsApart DEF Docs, Inserts
  <2>2. QED
    BY <1>4, <2>1, SeedCommit
<1>5. QED
  BY <1>1, <1>2, <1>3, <1>4
     DEF TableStep, StoreChunks, CopyChunks, clone_document, LibRestart, table

LEMMA CopiesTrueStep ==
    ASSUME RunsTyped, TableTyped, BareKept, Unmade, CopiesTrue, TableStep
    PROVE  CopiesTrue'
<1> SUFFICES ASSUME NEW e \in Upload, copy'[e] # NoCopy
             PROVE  /\ doc'[e] = Unused
                    /\ copy'[e].src \in Present' =>
                          /\ copy'[e].row.name = doc'[copy'[e].src].name
                          /\ copy'[e].row.marked = doc'[copy'[e].src].marked
  BY DEF CopiesTrue
<1>1. CASE copy[e] # NoCopy /\ copy'[e].src = copy[e].src /\ copy'[e].row = copy[e].row
  <2>1. doc[e] = Unused /\ doc[copy[e].src] # Unused
    BY <1>1 DEF CopiesTrue, BareKept
  <2>2. copy[e].src \in Docs
    BY <1>1 DEF TableTyped, CopyJobs
  <2>3. copy[e].src \in Present' => copy[e].src \in Present /\ doc'[copy[e].src] = doc[copy[e].src]
    BY <2>1, <2>2, RowsStay
  <2>4. doc'[e] = Unused
    BY <2>1, CopiesLeftAlone
  <2>5. QED
    BY <1>1, <2>3, <2>4 DEF CopiesTrue
<1>2. ASSUME NEW s \in Docs, clone_document(e, s)
      PROVE  /\ doc'[e] = Unused
             /\ copy'[e].src = s
             /\ copy'[e].row.name = doc'[s].name /\ copy'[e].row.marked = doc'[s].marked
  <2>1. doc[e] = Unused /\ doc' = doc
    BY <1>2 DEF clone_document, Fresh, table
  <2>2. copy'[e] = [at |-> "row", src |-> s, full |-> FALSE,
                    row |-> Row(doc[s].name, "clone", s, doc[s].marked)]
    BY <1>2 DEF clone_document, TableTyped
  <2>3. copy'[e].src = s /\ copy'[e].row = Row(doc[s].name, "clone", s, doc[s].marked)
    BY <2>2
  <2>4. QED
    BY <2>1, <2>3 DEF Row
<1>3. QED
  BY <1>1, <1>2, CopiesGoOn

LEMMA TasksTrueStep ==
    ASSUME RunsTyped, TasksTyped, TableTyped, Unmade, CopiesTrue, TasksTrue, TableStep, TaskStep
    PROVE  TasksTrue'
<1> SUFFICES ASSUME NEW e \in Upload, ingest'[e] # "none"
             PROVE  doc'[e] # Unused /\ (e \in Present' => doc'[e].from = "upload")
  BY DEF TasksTrue
<1>1. e \in Docs
  BY DEF Docs
<1>2. CASE ingest[e] # "none"
  <2>1. doc[e] # Unused /\ (e \in Present => doc[e].from = "upload")
    BY <1>2 DEF TasksTrue
  <2>2. QED
    BY <1>1, <2>1, RowsStay
<1>3. CASE upload_document(e)
  <2>1. PICK n \in Sample \union {OtherName} : doc' = [doc EXCEPT ![e] = Row(n, "upload", None, FALSE)]
    BY <1>3 DEF upload_document
  <2>2. doc'[e] = Row(n, "upload", None, FALSE)
    BY <1>1, <2>1 DEF TableTyped
  <2>3. doc'[e].from = "upload"
    BY <2>2 DEF Row
  <2>4. Row(n, "upload", None, FALSE) \in Rows
    BY RowFacts
  <2>5. doc'[e] # Unused
    BY <2>2, <2>4, NoRows
  <2>6. QED
    BY <2>3, <2>5
<1>4. CASE ingest[e] = "none" /\ ~ upload_document(e)
  <2>1. ASSUME NEW d \in Upload, d # e, upload_document(d) PROVE FALSE
    BY <1>4, <2>1 DEF upload_document, TasksTyped
  <2>2. ASSUME NEW d \in Upload,
               process_file_content(d) \/ StoreChunks(d) \/ ProcessingFailed(d)
        PROVE  FALSE
    <3>1. /\ ingest[d] # "none"
          /\ ingest' \in {[ingest EXCEPT ![d] = "none"], [ingest EXCEPT ![d] = "embedding"]}
      BY <2>2 DEF process_file_content, StoreChunks, ProcessingFailed
    <3>2. d # e
      BY <1>4, <3>1
    <3>3. ingest'[e] = ingest[e]
      BY <3>1, <3>2 DEF TasksTyped
    <3>4. QED
      BY <1>4, <3>3
  <2>3. CASE LibRestart
    BY <2>3 DEF LibRestart
  <2>4. QED
    BY <1>4, <2>1, <2>2, <2>3 DEF TaskStep
<1>5. QED
  BY <1>2, <1>3, <1>4

THEOREM ShelfInvariance == SetupSpec => []ShelfInv
<1>1. LibInit /\ SetupInit => ShelfInv
  <2> SUFFICES ASSUME LibInit, SetupInit PROVE ShelfInv
    OBVIOUS
  <2>1. Unmade
    BY DEF LibInit, Unmade, Docs
  <2>2. CopiesTrue /\ TasksTrue
    BY DEF LibInit, CopiesTrue, TasksTrue
  <2>3. QED
    BY <2>1, <2>2 DEF ShelfInv
<1>2. LibraryInv /\ ShelfInv /\ [SetupNext]_vars => ShelfInv'
  BY TableSteps, TaskSteps, UnmadeStep, CopiesTrueStep, TasksTrueStep DEF LibraryInv, ShelfInv
<1>3. QED
  BY <1>1, <1>2, LibraryInvariance, PTL DEF SetupSpec

\* What both specifications call by one name is one thing.
LEMMA SameWords ==
    /\ Promise!Present = Present
    /\ Promise!Unused = Unused /\ Promise!Deleted = Deleted
    /\ \A n, from, src, marked : Promise!Row(n, from, src, marked) = Row(n, from, src, marked)
BY DEF Promise!Present, Present, Promise!Unused, Unused, Promise!Deleted, Deleted, Promise!Row, Row

\* What the shelf shows of the library and of setup.
Shown == <<doc, chunks, Taken, Active, op, personas, templates>>

\* A step that changes neither rows, chunks nor clones leaves the shelf as it is, ...
LEMMA TakenStays ==
    /\ UNCHANGED copy => UNCHANGED Taken
    /\ UNCHANGED at => UNCHANGED Active
BY DEF Taken, Active

\* ... and one clone that changes is one that the shelf sees change.
LEMMA TakenChanges ==
    ASSUME NEW d \in Upload, \A e \in Upload : e # d => copy'[e] = copy[e]
    PROVE  Taken' = [Taken EXCEPT ![d] = IF copy'[d].at = "chunks"
                                         THEN {[row |-> copy'[d].row, full |-> copy'[d].full]} ELSE {}]
BY DEF Taken

LEMMA UploadOnShelf ==
    ASSUME TableTyped, NEW d \in Upload, upload_document(d), UNCHANGED setupVars
    PROVE  \E n \in Sample \union {OtherName} : Promise!Put(d, n)
<1>1. PICK n \in Sample \union {OtherName} : doc' = [doc EXCEPT ![d] = Row(n, "upload", None, FALSE)]
  BY DEF upload_document
<1>2. doc[d] = Unused /\ copy[d] = NoCopy /\ UNCHANGED <<chunks, copy>>
  BY DEF upload_document, Fresh
<1>3. Taken[d] = {}
  BY <1>2, NoRows DEF Taken
<1>4. UNCHANGED <<Taken, Active, op, personas, templates>>
  BY <1>2, TakenStays DEF setupVars, rows, runVars
<1>5. QED
  BY <1>1, <1>2, <1>3, <1>4, SameWords DEF Promise!Put

LEMMA IndexOnShelf ==
    ASSUME TasksTrue, NEW d \in Upload, StoreChunks(d), UNCHANGED setupVars
    PROVE  Promise!Index(d) \/ UNCHANGED Shown
<1>1. UNCHANGED <<doc, Taken, Active, op, personas, templates>>
  BY TakenStays DEF StoreChunks, setupVars, rows, runVars
<1>2. CASE d \in Present
  <2>1. doc[d].from = "upload" /\ chunks' = chunks \union {d}
    BY <1>2 DEF TasksTrue, StoreChunks
  <2>2. QED
    BY <1>1, <1>2, <2>1, SameWords DEF Promise!Index
<1>3. CASE d \notin Present
  BY <1>1, <1>3 DEF StoreChunks, Shown
<1>4. QED
  BY <1>2, <1>3

LEMMA RemoveOnShelf ==
    ASSUME NEW d \in Docs, delete_document(d), UNCHANGED setupVars
    PROVE  Promise!Remove(d)
<1>1. UNCHANGED <<Taken, Active, op, personas, templates>>
  BY TakenStays DEF delete_document, tasks, setupVars, rows, runVars
<1>2. d \in Present /\ doc' = [doc EXCEPT ![d] = Deleted] /\ chunks' = chunks \ {d}
  BY DEF delete_document
<1>3. QED
  BY <1>1, <1>2, SameWords DEF Promise!Remove

\* The clone's source is there no more, or has the row the clone has.
LEMMA TakeOnShelf ==
    ASSUME TableTyped, BareKept, CopiesTrue, NEW d \in Upload, CopyChunks(d), UNCHANGED setupVars
    PROVE  \E s \in Docs : Promise!Take(d, s)
<1>1. copy[d].at = "row" /\ copy[d] # NoCopy
  BY NoRows DEF CopyChunks
<1>2. copy[d] \in CopyJobs
  BY <1>1 DEF TableTyped
<1>3. PICK s \in Docs : s = copy[d].src
  BY <1>2 DEF CopyJobs
<1>4. PICK r \in Rows : r = copy[d].row
  BY <1>2 DEF CopyJobs
<1>5. PICK n \in Sample \union {OtherName}, m \in BOOLEAN : n = r.name /\ m = r.marked
  BY DEF Rows
<1>6. r.from = "clone" /\ r.src = s
  BY <1>1, <1>3, <1>4 DEF BareKept
<1>7. r = Row(n, "clone", s, m)
  BY <1>5, <1>6 DEF Rows, Row
<1>8. doc[d] = Unused /\ doc[s] # Unused
  BY <1>1, <1>3 DEF CopiesTrue, BareKept
<1>9. s \in Present => n = doc[s].name /\ m = doc[s].marked
  BY <1>1, <1>3, <1>4, <1>5 DEF CopiesTrue
<1>10. Taken[d] = {}
  BY <1>1 DEF Taken
<1>11. Taken' = [Taken EXCEPT ![d] = {[row |-> Row(n, "clone", s, m), full |-> s \in chunks]}]
  <2>1. /\ \A e \in Upload : e # d => copy'[e] = copy[e]
        /\ copy'[d].row = r /\ copy'[d].full = (s \in chunks)
    BY <1>3, <1>4, CopiedChunks
  <2>2. copy'[d].at = "chunks"
    BY <1>2 DEF CopyChunks, TableTyped, CopyJobs
  <2>3. Taken' = [Taken EXCEPT ![d] = {[row |-> copy'[d].row, full |-> copy'[d].full]}]
    BY <2>1, <2>2, TakenChanges
  <2>4. QED
    BY <1>7, <2>1, <2>3
<1>12. UNCHANGED <<doc, chunks, Active, op, personas, templates>>
  BY TakenStays DEF CopyChunks, table, setupVars, rows, runVars
<1>13. Promise!Take(d, s)
  BY <1>8, <1>9, <1>10, <1>11, <1>12, SameWords DEF Promise!Take
<1>14. QED
  BY <1>13

LEMMA CopyOnShelf ==
    ASSUME TableTyped, CopiesTrue, NEW d \in Upload, CommitClone(d), UNCHANGED setupVars
    PROVE  Promise!Copy(d)
<1>1. copy[d].at = "chunks" /\ copy[d] # NoCopy
  BY NoRows DEF CommitClone
<1>2. doc[d] = Unused
  BY <1>1 DEF CopiesTrue
<1>3. Taken[d] = {[row |-> copy[d].row, full |-> copy[d].full]}
  BY <1>1 DEF Taken
<1>4. /\ doc' = [doc EXCEPT ![d] = copy[d].row]
      /\ chunks' = IF copy[d].full THEN chunks \union {d} ELSE chunks
      /\ copy' = [copy EXCEPT ![d] = NoCopy]
  BY DEF CommitClone
<1>5. Taken' = [Taken EXCEPT ![d] = {}]
  <2>1. copy'[d] = NoCopy /\ \A e \in Upload : e # d => copy'[e] = copy[e]
    BY <1>4 DEF TableTyped
  <2>2. copy'[d].at # "chunks"
    BY <2>1, NoRows
  <2>3. QED
    BY <2>1, <2>2, TakenChanges
<1>6. UNCHANGED <<Active, op, personas, templates>>
  BY TakenStays DEF setupVars, rows, runVars
<1>7. PICK job \in Taken[d] : job.row = copy[d].row /\ job.full = copy[d].full
  BY <1>3
<1>8. QED
  BY <1>2, <1>4, <1>5, <1>6, <1>7, SameWords DEF Promise!Copy

LEMMA AskOnShelf ==
    ASSUME RunsTyped, NEW s \in Setup, run_setup(s)
    PROVE  Promise!Ask(s)
<1>1. s \notin Active /\ Active' = Active \union {s}
  BY DEF run_setup, Moves, Active, RunsTyped
<1>2. UNCHANGED <<doc, chunks, Taken, personas, templates>>
  BY TakenStays DEF run_setup, libVars, table, tasks, rows
<1>3. QED
  BY <1>1, <1>2 DEF run_setup, Promise!Ask

\* A run that ends is under way no more.
LEMMA OverIsOver ==
    ASSUME RunsTyped, NEW s \in Setup, NEW outcome, Over(s, outcome)
    PROVE  Active' = Active \ {s} /\ op' = outcome
BY DEF Over, Active, RunsTyped

LEMMA FailOnShelf ==
    ASSUME RunsTyped, NEW s \in Setup, SetupFails(s)
    PROVE  Promise!Fail(s)
<1>1. s \in Active
  BY DEF SetupFails, Active
<1>2. Active' = Active \ {s} /\ op' = "error"
  BY OverIsOver DEF SetupFails
<1>3. UNCHANGED <<doc, chunks, Taken, personas, templates>>
  BY TakenStays DEF SetupFails, libVars, table, tasks, rows
<1>4. QED
  BY <1>1, <1>2, <1>3 DEF Promise!Fail

\* All that the seed inserts was not there, and each of its samples comes once.
LEMMA StockOnShelf ==
    ASSUME RunsTyped, TableTyped, Unmade, NEW s \in Setup, CommitSeed(s)
    PROVE  Promise!Stock(s)
<1>1. s \in Active /\ at[s] # "over"
  BY DEF CommitSeed, Active
<1>2. Active' = Active \ {s} /\ op' = "success"
  BY OverIsOver DEF CommitSeed
<1>3. UNCHANGED Taken
  BY TakenStays DEF CommitSeed, tasks
<1>4. /\ personas' \in {personas, personas + 1}
      /\ templates' \in {templates, templates + 1}
  <2>1. personas' = personas + (IF plan[s].personas THEN 1 ELSE 0)
    BY DEF CommitSeed
  <2>2. templates' = templates + (IF plan[s].templates THEN 1 ELSE 0)
    BY DEF CommitSeed
  <2>3. personas + 0 = personas /\ templates + 0 = templates
    BY DEF RunsTyped
  <2>4. QED
    BY <2>1, <2>2, <2>3
<1>5. PICK new \in SUBSET Docs : new = Inserts(s)
  BY DEF RunsTyped, Plans, Inserts
<1>6. PICK mended \in SUBSET Present : mended = Repairs(s)
  BY DEF CommitSeed
<1>7. PICK of : of = [d \in new |-> d[2]]
  OBVIOUS
<1>8. \A d \in new : \E n \in Sample : d = <<s, n>> /\ of[d] = n
  <2>1. \A d \in new : \E n \in Sample : d = <<s, n>>
    BY <1>5 DEF Inserts
  <2>2. QED
    BY <1>7, <2>1
<1>9. of \in [new -> Sample] /\ \A d, e \in new : of[d] = of[e] => d = e
  BY <1>7, <1>8
<1>10. new \subseteq {d \in Docs : doc[d] = Unused}
  BY <1>1, <1>5, <1>8 DEF Unmade
<1>11. doc' = [d \in Docs |-> IF d \in new THEN Row(of[d], "seed", None, TRUE) ELSE doc[d]]
  <2>1. doc' = [d \in Docs |-> IF d \in new THEN Row(d[2], "seed", None, TRUE) ELSE doc[d]]
    BY <1>5 DEF CommitSeed
  <2>2. \A d \in new : of[d] = d[2]
    BY <1>7
  <2>3. QED
    BY <2>1, <2>2
<1>12. chunks' = chunks \union new \union mended
  BY <1>5, <1>6 DEF CommitSeed, Inserts, Repairs
<1>13. /\ new \in SUBSET {d \in Docs : doc[d] = Promise!Unused}
       /\ mended \in SUBSET Promise!Present
       /\ doc' = [d \in Docs |-> IF d \in new THEN Promise!Row(of[d], "seed", None, TRUE) ELSE doc[d]]
  BY <1>6, <1>10, <1>11, SameWords
<1>14. QED
  BY <1>1, <1>2, <1>3, <1>4, <1>9, <1>12, <1>13 DEF Promise!Stock

LEMMA DieOnShelf ==
    ASSUME Restart
    PROVE  Promise!Die
<1>1. copy' = [d \in Upload |-> NoCopy] /\ UNCHANGED <<doc, chunks, personas, templates>>
  BY DEF Restart, LibRestart, table, rows
<1>2. Taken' = [d \in Upload |-> {}]
  BY <1>1, NoRows DEF Taken
<1>3. Active' = {} /\ op' = "none"
  BY DEF Restart, Active
<1>4. QED
  BY <1>1, <1>2, <1>3 DEF Promise!Die

\* The stages of a run before its end show nowhere.
LEMMA StagesUnseen ==
    ASSUME RunsTyped, NEW s \in Setup,
           \/ _run_migrations(s) \/ SeedPersonas(s) \/ CountDocuments(s)
           \/ \E n \in Sample : FoundWhole(s, n) \/ EmbedFirst(s, n)
           \/ Seeded(s) \/ NotSeeded(s) \/ SeedTemplates(s)
    PROVE  UNCHANGED Shown
<1>1. UNCHANGED <<doc, chunks, copy, op, personas, templates>>
  BY DEF _run_migrations, SeedPersonas, CountDocuments, FoundWhole, EmbedFirst, Seeded,
         NotSeeded, SeedTemplates, libVars, table, tasks, rows
<1>2. at' = at \/ \E to \in Past \union {"personas"} :
                     s \in Active /\ at' = [at EXCEPT ![s] = to]
  BY DEF _run_migrations, SeedPersonas, CountDocuments, FoundWhole, EmbedFirst, Seeded,
         NotSeeded, SeedTemplates, Embeds, Moves, Active, Past
<1>3. UNCHANGED Active
  BY <1>2 DEF Active, Past, RunsTyped
<1>4. QED
  BY <1>1, <1>3, TakenStays DEF Shown

\* For any uploads, clones, searches and overlapping runs of setup: the library and
\* setup implement Shelf.  A clone (documents.py:156) is its source as it was when
\* its chunks were read; a document becomes searchable with its row, or later if
\* it is an upload (document_processing.py) or setup mends it; and of a run of
\* setup (system.py, seed.py:387) everything is there or nothing, as it reports.
THEOREM ImplementsShelf == SetupSpec => RefinesShelf
<1>1. LibInit /\ SetupInit => Promise!ShelfInit
  <2> SUFFICES ASSUME LibInit, SetupInit PROVE Promise!ShelfInit
    OBVIOUS
  <2>1. Taken = [d \in Upload |-> {}]
    BY NoRows DEF LibInit, Taken
  <2>2. Active = {}
    BY DEF SetupInit, Active
  <2>3. doc \in [Docs -> {Unused, Deleted}]
    BY DEF LibInit
  <2>4. QED
    BY <2>1, <2>2, <2>3, SameWords DEF LibInit, SetupInit, Promise!ShelfInit
<1>2. LibraryInv /\ ShelfInv /\ [SetupNext]_vars => [Promise!ShelfNext]_Promise!shelfVars
  <2> SUFFICES ASSUME LibraryInv, ShelfInv, [SetupNext]_vars
               PROVE  Promise!ShelfNext \/ UNCHANGED Shown
    BY DEF Promise!shelfVars, Shown
  <2> USE DEF LibraryInv, ShelfInv
  <2>1. ASSUME UNCHANGED setupVars, UNCHANGED <<table, copy>> PROVE UNCHANGED Shown
    BY <2>1, TakenStays DEF setupVars, rows, runVars, table, Shown
  <2>2. ASSUME LibRequests, UNCHANGED setupVars PROVE Promise!ShelfNext \/ UNCHANGED Shown
    <3>1. CASE \E d \in Upload : upload_document(d)
      BY <2>2, <3>1, UploadOnShelf DEF Promise!ShelfNext
    <3>2. CASE \E d \in Docs : delete_document(d)
      BY <2>2, <3>2, RemoveOnShelf DEF Promise!ShelfNext
    <3>3. CASE \E q \in Query : Search(q)
      BY <2>1, <2>2, <3>3 DEF Search, tasks
    <3>4. ASSUME NEW d \in Upload, NEW s \in Docs, clone_document(d, s) PROVE UNCHANGED Shown
      <4>1. copy[d] = NoCopy /\ UNCHANGED <<doc, chunks>>
        BY <3>4 DEF clone_document, Fresh, table
      <4>2. copy'[d].at = "row" /\ \A e \in Upload : e # d => copy'[e] = copy[e]
        BY <3>4 DEF clone_document, TableTyped
      <4>3. UNCHANGED Taken
        BY <4>1, <4>2, NoRows DEF Taken
      <4>4. QED
        BY <2>2, <4>1, <4>3, TakenStays DEF setupVars, rows, runVars, Shown
    <3>5. QED
      BY <2>2, <3>1, <3>2, <3>3, <3>4 DEF LibRequests
  <2>3. ASSUME LibWork, UNCHANGED setupVars PROVE Promise!ShelfNext \/ UNCHANGED Shown
    <3>1. ASSUME NEW d \in Upload, StoreChunks(d) PROVE Promise!ShelfNext \/ UNCHANGED Shown
      BY <2>3, <3>1, IndexOnShelf DEF Promise!ShelfNext
    <3>2. ASSUME NEW d \in Upload, CopyChunks(d) PROVE Promise!ShelfNext
      BY <2>3, <3>2, TakeOnShelf DEF Promise!ShelfNext
    <3>3. ASSUME NEW d \in Upload, CommitClone(d) PROVE Promise!ShelfNext
      BY <2>3, <3>3, CopyOnShelf DEF Promise!ShelfNext
    <3>4. CASE \/ \E c \in Callers : Answered(c)
               \/ \E d \in Upload : process_file_content(d) \/ ProcessingFailed(d)
      BY <2>1, <2>3, <3>4 DEF Answered, process_file_content, ProcessingFailed, tasks
    <3>5. QED
      BY <2>3, <3>1, <3>2, <3>3, <3>4 DEF LibWork
  <2>4. CASE create_role
    BY <2>4, TakenStays DEF create_role, libVars, table, tasks, runVars, Shown
  <2>5. ASSUME NEW s \in Setup, run_setup(s) \/ CommitSeed(s) \/ SetupFails(s)
        PROVE  Promise!ShelfNext
    BY <2>5, AskOnShelf, StockOnShelf, FailOnShelf DEF Promise!ShelfNext
  <2>6. CASE SetupWork
    BY <2>5, <2>6, StagesUnseen DEF SetupWork
  <2>7. CASE Restart
    BY <2>7, DieOnShelf DEF Promise!ShelfNext
  <2>8. CASE UNCHANGED vars
    BY <2>1, <2>8 DEF vars, libVars, tasks
  <2>9. QED
    BY <2>2, <2>3, <2>4, <2>5, <2>6, <2>7, <2>8 DEF SetupNext, Requests, Work
<1>3. QED
  BY <1>1, <1>2, LibraryInvariance, ShelfInvariance, PTL
     DEF SetupSpec, RefinesShelf, Promise!ShelfSpec
=============================================================================
