# Meetings: a TLA+ verification of the simulated-meeting platform

The program runs simulated meetings. A FastAPI backend keeps meetings, personas and
documents in Postgres; a LangGraph graph lets a chair (a model) choose who speaks; each
attendee speaks from a gVisor sandbox of its own, claimed from a Kubernetes warm pool; a
browser starts, stops and watches a meeting over a WebSocket. This directory models the
parts of it where several actors, cancellations, crashes and retries meet, checks them
with TLC and proves what matters most with TLAPS.

Paths below are relative to the repository; `app/` stands for `src/backend/app/` and
`runtime/` for `src/sandbox/runtime/runtime/`.

## 1. Inventory

### The parts, their state and their operations

| Part | State | Operations | Hard because |
|---|---|---|---|
| Meeting lifecycle, `app/api/routes/meetings.py` | the row (`status`, `event_log`), the process-wide dict `active_meetings`, one handler per WebSocket with a local `execution_task` | create, delete, connect, `start_meeting`, `stop_meeting`/`terminate_meeting`, disconnect | check, two awaits, then act; the stop acts on a local; cancellation at any await |
| Meeting executor, `app/services/meeting_executor.py` | the task, the list of events, the row's outcome | validate, configure, refuse, stream, write the outcome, release | the transcript is only in memory until the stream ends; who writes last wins |
| Cleanup rules, `app/services/cleanup.py` | the row's transcript | keep or purge at a termination | applied by two handlers that may both run |
| Startup and reaper, `app/main.py`, `app/sandbox/reaper.py` | rows left live, claims left in the cluster | reap rows, sweep sandboxes | each step may fail and is only logged |
| Sandbox manager, `app/sandbox/manager.py` | the lease table, each lease's bound flag, one lock | acquire, bind check, mark bound, invalidate, release, release meeting | the table is read before the lock; SDK calls run in threads that outlive a cancellation |
| Agent node, `app/orchestration/agents.py` | none of its own | one turn: look up, lease, bind, issue, retry once, record | the retry after a half-finished turn |
| Turn store, `app/services/turn_cache.py` | `turn_results`, keyed by meeting, turn number, attendee | lookup, record | both may fail silently; the keys are used again by every run of the meeting |
| Supervisor and graph, `app/orchestration/supervisor.py`, `graph.py`, `state.py` | the thread the checkpointer keeps: messages, `current_turn`, `next_speaker` | decide, fall back, conclude, route | three attempts and two fallbacks, each with its own idea of the turn counter |
| LLM ladder and recovery, `app/orchestration/llm_call.py`, `recovery.py` | none | tools, a larger retry, plain text; salvage; resolve an id | order of rungs |
| Persona runtime, `runtime/server.py`, `agent.py`, `idempotency.py` | the bound persona, a turn cache of 64 entries | bind, turn | a pod that restarts forgets both |
| Profiles, `app/orchestration/profiles.py`, `runtime/capabilities.py` | constant tables | resolve a set of tools to a profile; intersect it with the capability file and the image | least privilege: the smallest that covers; three parties each know their own set |
| Settings and cache, `app/services/settings_service.py` | the row, a process-wide cached copy | read, first insert, update, invalidate | a slow read can store an old row after an update; two first readers |
| Execution sandboxes, `runtime/tools/code_exec.py`, `src/sandbox/exec-python/`, `app/api/routes/internal.py` | a claim, a token, a request, a job | claim, poll, fetch a token, post, run, give back, store | three clocks over one call; every await may fail, be cancelled or lose its pod |
| Internal API and identity, `app/core/sandbox_auth.py`, `app/api/routes/internal.py`, `app/sandbox/scoped_token.py` | pod labels, tokens | authenticate, search, store, mint | identity comes from labels only, never from the request |
| Documents, `app/api/routes/documents.py`, `app/services/document_processing.py`, `embedding_service.py`, `vector_search.py` | documents, chunks, the registry of models that need an `input_type` | upload, process in background, delete, clone, search | background work races delete, clone and restart; one call learns what others need |
| Setup, `app/api/routes/system.py`, `src/backend/scripts/seed.py` | one remembered outcome; roles, templates, samples | request, migrate, seed, report | the seed reads over many awaits and writes once; two runs; a restart in the middle |
| Operator auth, `app/core/auth.py` | two configured tokens | authenticate a request or a socket | nothing shared between requests |
| Roles, templates | rows | independent requests | `create_role` decides whether setup inserts the personas |
| Telemetry, configuration, chart | constants | | |
| Frontend, `src/frontend/src/` | the event store, one socket per page | connect, command, drop | a second tab |

### How they interact

A browser's socket starts a **task**, which the registry names. The task drives the
**graph**: chair, attendee, chair, attendee, ... An attendee's node asks the **turn
store**, then the **manager** for a lease, then the **runtime** behind it; the answer goes
to the store, to the thread, and as an event to the socket. When the stream ends, the task
writes the outcome and transcript in one commit, has the manager release the meeting's
sandboxes, and drops its registry entry. A stop or a closed tab cancels the task; a
restart kills everything but Postgres and the cluster, and the reaper tidies both.

### What makes each correct

* lifecycle: one task executes a meeting; the registry tells the truth; a row that blocks
  creates is being driven by somebody; a stop stays a stop; a completed meeting has its
  transcript, whatever a termination under way had read;
* sandboxes: a persona is only ever bound under its own label; one sandbox per persona; no
  claim is forgotten; a lease that was given up stays given up; the lock comes back;
* deliberation: every turn is heard once and in order, within the limit; a recorded turn is
  not put to the model again; the meeting is not ended on people nobody heard; runs end;
* settings: a copy that is not the row is an older row, and there is an overlap or a failed
  change to blame;
  nobody is refused who met nobody;
* execution sandboxes: a job runs in its own claim's sandbox, every claim goes, code runs
  only for whoever has both grants, an answer without an error lost nothing;
* documents: no chunk without its document, no unsearchable document without a cause, and
  every upload's processing ends;
* setup: one after another, runs seed once, and the status page tells the truth of them;
* access: changes need the operator, a persona reads its own libraries only;
* answers: the chair gives the turn only to whom the model's words name alone.

The hazards, each at its line and with the properties meant to catch it, are listed in
`PROJECT.json`.

## 2. The modules

| Module | What it is |
|---|---|
| `MeetingRecord` | abstract: what the row promises a reader of the API |
| `RunsInTurn` | abstract: runs of a meeting that take turns, what the modules about one meeting ask of its executor |
| `Meetings` | lifecycle, executor task, cleanup, restart and reaper of rows; refines `MeetingRecord` and, with one tab per meeting, `RunsInTurn` |
| `MCMeetings` | instances for TLC |
| `MeetingsProofs` | theorems about `Meetings` |
| `Leases` | abstract: what the sandbox manager promises the turns of a meeting |
| `Sandboxes` | one meeting's leases and claims: manager, the sandbox side of a turn, the cluster, the sweep; refines `Leases` when runs take turns |
| `MCSandboxes` | instances for TLC |
| `SandboxesProofs` | theorems that hold however runs overlap |
| `SandboxesOneRunProofs` | theorems that hold when runs do not overlap |
| `Minutes` | abstract: what a meeting's transcripts and turn store promise, run after run |
| `Deliberation` | what is said: chair, router, attendee's node, turn store, runtime cache, over successive runs; refines `Minutes` |
| `MCDeliberation` | instances for TLC |
| `ChairAnswer` | operators: what a reply of a model is read as; `Deliberation` extends it |
| `DeliberationProofs` | theorems about `Deliberation` and `ChairAnswer` |
| `Profiles` | operators: profiles, grants and the tools a sandbox activates |
| `ProfilesProofs` | theorems about `Profiles` |
| `CodeCalls` | abstract: what the code-execution tool promises of a call |
| `ExecSandboxes` | calls of the code-execution tool, their claims, sandboxes, tokens and jobs; extends `Profiles`, refines `CodeCalls` |
| `MCExecSandboxes` | an instance for TLC |
| `ExecSandboxesProofs` | theorems about `ExecSandboxes` |
| `Shelf` | abstract: what the library and setup promise whoever keeps and searches documents |
| `Library` | documents, chunks, background processing and the embedding client |
| `SetupSequence` | runs of setup over the library, roles and templates; extends `Library`, refines `Shelf` |
| `LibraryProofs` | theorems about `Library` and `SetupSequence` |
| `SettingsCache` | the settings row and its cached copy |
| `MCServices` | `SetupSequence` and `SettingsCache` side by side, for TLC |
| `Access` | operators: tokens, roles, identities and the scopes of what a persona reads and writes |
| `Readiness` | operators: the status page and the readiness probe |
| `ServicesProofs` | theorems about `SettingsCache`, `Access` and `Readiness` |

The first three subsystems meet in a few facts, each a property of one and an assumption of
another. `Sandboxes` and `Deliberation` both take runs as given, and the interface between
them and `Meetings` is a module of its own, `RunsInTurn`: a run begins only while no other
run of its meeting is under way, and does not come back once it is over. `Meetings` gives it
with one tab per meeting (`OneTabGivesTurns`); `Sandboxes!OneRunSpec` is `Sandboxes` with it
and nothing more (`OneRunIsInTurn`); in `Deliberation`, which has one run at a time, it is
built in. Both theorems are proved. That a turn
ends (`Sandboxes!TurnsEnd`, `Deliberation!RunEnds`) is what the fairness of a stream's end
in `Meetings` rests on.

### Meetings

An action is the code between two awaits. `spc[s]` is a handler's place: `receiving`,
`starting` and `queueing` (before the select of a start, and before its commit), `stopping`
and `terminating` (the same of a stop). `tpc[t]` is the task's: `created`, `fetching`,
`configuring`, `streaming`, `concluding` and `refusing` (before the commit of an outcome),
`releasing`, and `cancelling`, `terminating` and `unwinding` inside its `CancelledError`
handler. A task is over as `done`, as `died` (an exception `send_events` does not handle) or
as `stillborn` (cancelled before its first step: asyncio then never enters its `try`).
`log[m]` is the task whose transcript the row holds. `creating` are the creates that found
no active meeting and have yet to insert their row.

Every write of a row is a select and, an await or more later, a commit. In between
`sdirty[s]` or `tdirty[t]` is what the session has assigned and not written. Sessions expire
and flush nothing by themselves (`app/core/database.py:42`), and SQLAlchemy writes an
attribute only if it was given a value other than the one it was loaded with: a stop that
found the row `terminated` writes its purge and no status (`Assigned`, `Flush`). An UPDATE of
a row deleted since the select matches nothing and raises (`Lost`). A termination reads the
settings between the two; where their row does not exist, inserting it commits the status
with it and the purge only later (`InsertSettings`), and a second insert of it fails
(`Fails`). A session that fails ends its handler or its task, save at the conclusion of a
run, where `except Exception` reports it as a refusal (`meeting_executor.py:168`). The column
`terminated` is set together with the status and read by nobody: it is not modelled.

Three more facts of the code shape the model. `meeting.status = "running"` is assigned in a
session nothing commits, unless reading the settings inserts their row: the row normally
stays `queued` while it runs (`TaskConfigure`). Sessions are made with `autoflush=False`
(`app/core/database.py`), so that assignment is not flushed by the reads after it.
`Task.cancel()` on a task already in its handler interrupts that handler (`Cancelled`).

### Sandboxes

The lease table (`lease`, `bound`), the lock, and the cluster's claims (`cstate`, `label`,
`pods`, `persona`). `Acquire` reads the table before the lock, as the code does;
`Claimed` writes it after. A thread that creates or deletes a claim goes on when its run
is cut (`AbandonedClaim`, `DeleteEnds`), and may fail. `excused` and `lost` are history:
claims an SDK call failed or was abandoned over, and claims whose pod was lost. A claim's
name is never used twice; with finitely many claims that becomes `Fresh`: a claim is
reused only once nothing that the program still looks at refers to it. The cluster is
external and modelled from how the code uses it: it makes claims, restarts pods, loses
them, and deletes a claim at the end of its lifetime.

`Manager` maps this to `Leases`: the leases, their flags, the deletions under way, the claim
objects there are, and the turn that is in a sandbox with the sandbox it goes to. There a
turn's sandbox is made for its attendee, is nobody else's, and stays the attendee's until
its own turn or the end of the run gives it up. What the code adds and `Leases` does not
show is everything that could break that: the table read before the lock, threads that
outlive their run, claims that expire under a lease, what an earlier process left standing.

The lock is one per process and its contention across meetings is not modelled: a module
with several meetings would only add waiting.

### Deliberation

`turn`, `next` and `thread` are the checkpointed channels `current_turn`, `next_speaker`
and `messages`; `thread` is kept as a set, since only who spoke is ever read from it by a
decision. `transcript` is the run's streamed utterances, the list the executor writes to
the row. An utterance is who, in which turn, and which take: each model call makes a new
take, and take 0 is the placeholder of a failed turn. The chair's decision is the outcome
of `structured_call` and `recover_speaker_id`: an attendee, `FINISH`, or nothing usable.
Which unheard attendee the fallback picks follows the order in which the database returned
the attendees, which the query does not fix: the model leaves it open. So does
the runtime's cache as to which old entry it evicts.

A run is given an initial state, never `None`, so LangGraph starts it at the chair with
`current_turn` 0 (nothing updates the row's `current_turn`), on a thread that keeps the
messages of earlier runs. That is why turn keys recur, and the store answers a later run.

`Kept` maps this to `Minutes`: what was heard (`transcript`), what was said (`asked`), the
book (`store`), whose voice is remembered (the names in `thread`). `Minutes` has seven
actions and says what no failure may do: hear a turn out of order or past the limit, hear
what nobody said, hear or ask for anything else where the book can be read, write anything
in the book twice or that was not said, close for the limit before it, or give up before
everybody was heard.

### Profiles and ExecSandboxes

`resolve` tries the profiles from least to most capable, as the code does. `ExecSandboxes`
uses it: a caller is offered `run_python_analysis` when its profile, its capability file and
its image all have it, and the apiserver lets it claim when its account is bound to the
Role. An action is again the code between two awaits: `claiming`, `waiting` (polling the
claim), `routing` and `naming` (the two reads of `exec_token`), `posting`, `posted`,
`releasing`, `writing`. A sandbox has a name, which another may get later, and a UID, which
none does; a token names a UID. `crossed` is history: calls whose token was read off a
name that had changed hands between the claim and the sandbox. `left` is history too:
calls that ended without giving their claim back, because the release failed, the SDK gave
up, the turn was cut or the pod was evicted. Time is in ticks of 30 seconds, and a tick is
taken only when no clock would pass its limit. A router is taken to be configured; without
one, the runtime talks to the sandbox directly and the token steps fall away.

`CodeCalls` knows nothing of claims, names and tokens: a call is asked, may start its job
once, unless it has failed or was cut before, gets its own job's result or an error, stores
what was produced and closes. A job may go on after its call has answered, and may vanish.
In the mapping a call is `spent` from the post on, or when it has left the way to it.

### Library and SetupSequence

`call[c]` is one embedding call: made with or without an `input_type` as the registry says
then (`typed`, `untyped`), retried after a first refusal (`again`), answered (`ok`,
`refused`, `down`). `met` is history: callers that were in flight together. Whether the
model refuses at all is fixed per behaviour. A document is committed before its background
task is queued, so it is unsearchable for a while and, if the task fails or the process
dies, for ever: `fate` records how the task ended, `bare` which documents ever had no
chunk. A clone reads the row, then the chunks, then commits both; copying a template's
documents when a meeting is created (`meetings.py:72`) and attaching a document to a
meeting (`meetings.py:404`) are the same three steps.

A run of setup (`SetupSequence`) carries what it has read (`found`, `todo`, `aim`) and what
its one commit will write (`plan`). Reading a document's row and counting its chunks is one
step here and two statements in the code, and so are the two counts of documents.
`overlapped` is history: two runs were under way at once, which the route does not prevent.

Both together implement `Shelf`, in which a clone is taken in one step and setup stocks the
shelf in one. A clone is taken when its chunks are read: until then it is nothing, from then
on it is a copy that waits for its commit (`Taken`). A source deleted between the two reads
leaves a clone with a row and no chunk, which is what `Shelf` promises of it. A run is under
way (`underway`) while it is in `Active`; its stages, and every embedding call, are stutters.

### SettingsCache

The content of the row is named by the number of updates it has had. A reader that finds
no copy reads the row, makes it if there is none, and stores what it read; an updater
commits, refreshes, and drops the copy. Any of these database calls may fail and end its
request (`DatabaseFails`); after a commit that leaves the copy where it is. `behind` marks
reads under way when a change committed, `late` a copy made by one, `missed` a copy such a
failure left, `raced` tasks that found no row while another was making it.

### ChairAnswer, Access and Readiness

Operators without state, translated from functions without state. A model's word is reduced
to what the code finds in it (an id, `FINISH`, too short, whose names it occurs in), a reply
to the words found in each place they are looked for; `Deliberation` takes the chair's
decisions from them. Ids are opaque values; a token is its text and the blanks around it,
which `_bearer` strips off what is presented and nothing strips off what is configured. Tokens
are taken to be ASCII.

### Mutations

Each module also holds operators commented "Mutation": a definition of the module changed
the way a plausible bug would change the code. No action uses them; `PROJECT.json` names the
definition each replaces and the property that then fails.

## 3. The runs

| Run | Instance | What it shows |
|---|---|---|
| `meetings_safe` | 2 meetings, 2 sockets, 2 tasks, 1 restart, both cleanup rules | typing, `RegistryAccurate`, `ActiveRowExplained`, and that `Meetings` implements `MeetingRecord` |
| `meetings_one_tab` | 1 meeting, 2 tabs one after the other, 3 starts, 1 restart | `OneTaskPerMeeting`, `CompletedHasTranscript`, `StopIsFinal`, `ActiveRowSettles` |
| `meetings_two_active` | as `meetings_safe` | two drafts started from two tabs are active at once |
| `meetings_two_tabs` | 1 meeting, 2 tabs | a stop from another tab is overwritten by the run it did not cancel |
| `meetings_lost_transcript` | 1 meeting, 1 tab | a closed tab costs the transcript, keep rule or not |
| `sandboxes_safe` | 2 attendees, 2 overlapping runs, 2 claims, 1 restart | typing, `BoundUnderOwnLabel`, `LeasedNotDeleting`, `LockHeldWhileClaiming` |
| `sandboxes_one_run` | 1 attendee, 2 runs in turn, 2 claims, 1 restart | `ClaimsAccountedFor`, `BoundFlagIsTrue`, `TurnsEnd`, and that `Sandboxes` implements `Leases` |
| `sandboxes_cut_run` | the same, one run | a stopped run keeps its leases |
| `deliberation_runs` | 2 attendees, limit 2, 2 runs, a cache of 1 | `TurnsInOrder`, `RecordIsWhatWasHeard`, `EveryoneHeardFirst`, `RecordedNotReinvoked`, `RunEnds`, and that `Deliberation` implements `Minutes` |
| `exec_sandboxes` | 2 calls, 3 kinds of caller, 1 name, 2 UIDs, 1 file | `JobInOwnSandbox`, `EndedReleased`, `OnlyGrantedRun`, `PromptJobsSpared`, `ClaimsEnd`, `CallsEnd`, and that `ExecSandboxes` implements `CodeCalls` |
| `services` | documents: 2 uploads or clones, 1 search, 1 restart; setup: 2 runs, 1 sample, 2 personas, 1 upload, 1 role, 1 restart; settings: 2 readers, 2 updaters, 2 changes | `RefusedOnlyMet`, `UploadsSettle`; `SeededOnce`, `OpTellsTruth`, `SetupReported`; that `Library` and `SetupSequence` implement `Shelf`; `StaleAccountedFor`, `RefusedOnlyRaced` |
| `deliberation_reissue` | the same as `deliberation_runs` | a turn is put to the model twice when its answer is lost |

**Bounds.** Two meetings are what the one-active-meeting rule needs to be broken, and the
registry and the refinement to confuse two rows. Two sockets give the two tabs, or one
tab before and one after a disconnect or a restart; a socket can start, stop and start again,
and with a third task the run of the later tab can be a third start. `meetings_safe` takes
meetings, sockets and tasks up to permutation: no definition tells one from another, and the
properties checked there are invariants and a refinement without liveness, in which every
member is treated alike. Sockets, tasks and
runs are used once, so that their number bounds starts and connections; one restart
separates a before from an after. Two claims let a lease and its replacement exist
together. Two attendees and a limit of two turns let one attendee speak twice and each
once; two runs let the store answer; a cache of one entry evicts. Two calls and one name
let a sandbox's name change hands, two ticks of job time let a job outlive a claim. Two
documents are a source and its clone, with a search two embedding calls that meet; two runs
of setup, one after the other or at once, see what the first left; two updates let a read
fall two behind. In `services` the three parts share no state, so one at a time moves while
the others rest, and `setup` begins where one document is still to be made: the larger
product shows nothing more. No role is created after two runs have overlapped, as the
properties that count roles speak of runs that do not. The proofs drop all of these bounds.

`MCDeliberation` also has TLC evaluate `ThoughtsStayPrivate`: `split_thought`, pass by
pass, against the one-line reference `Private`, on every utterance of up to six parts.

**Deadlock** is not checked in any run: a process in which every socket is closed, every task
over and every restart used has nothing left to do.

**Fairness.** Weak, and only for what the event loop, the database, the timeouts or the
runtime see to: a task's next step, the rest of a stop once asked for and a disconnect
(`Meetings!Fairness`; calls of the database have no statement timeout in this program, so
that they answer is assumed here and below); SDK and HTTP calls, which all have a timeout, and the run's own next
step inside a turn (`Sandboxes!Fairness`); the chair's and the attendee's steps, as every
call of theirs has a timeout (`Deliberation!FairSpec`); the steps of a call and its job, the
controller's deadline and time (`ExecSandboxes!Fairness`); what background tasks, requests
under way and runs of setup do next, embedding calls having a timeout too
(`SetupSequence!FairSetupSpec`, `MCServices!MCSpec`). The last two are one joint condition
each: every step in it happens a bounded number of times, so that one of them happening
while one can is enough for all. Nothing makes a client act, a run
start, a next turn begin, a pod get lost or a process crash.

**Two environments.** `Meetings!OneTabSpec` opens a tab on a meeting only when the handlers
of earlier tabs are gone; it is how the frontend is used and what `StopIsFinal`,
`OneTaskPerMeeting` and `CompletedHasTranscript` need, as `meetings_two_tabs` shows of the
first; without it two tabs both start the meeting (the hazard at `meetings.py:355`), and
the stop of one purges what a run of the other completes (see below). `Sandboxes!OneRunSpec`
starts a run only when no other is active, which is `RunsInTurn`. Under plain `Spec`, where runs overlap, the second lease of
an attendee hides the first, so that `RefinesLeases`, `BoundFlagIsTrue` and
`ClaimsAccountedFor` all fail: the consequence of a second run of the same
meeting.

### Findings

The five violation runs each contradict a line of the repository, quoted in `PROJECT.json`:
the one-active-meeting rule is enforced at creation only; a stop acts on the handler's own
task only; the transcript does not survive a disconnect; sandboxes of a stopped run are not
released; the turn store does not make the re-issue of a turn safe.

Behaviours seen while modelling that no run singles out:

* a task cancelled before its first step leaves its entry in `active_meetings` for ever,
  and every later start answers "Meeting already running" (the `stillborn` case of
  `RegistryAccurate`);
* an error while sending to a closed socket ends a run without an outcome and leaves the
  row `queued`, which refuses every create until a restart (the `died` case of
  `ActiveRowExplained`);
* a meeting started again replays its old utterances wherever the chair makes the same
  choice, and its fallback finds nobody unheard, since the thread remembers the earlier
  run: hence the "first run" in `EveryoneHeardFirst`;
* the sweep deletes Sandbox objects and not their claims, so that the controller may start
  a replacement for each: it stays until its claim's lifetime ends, and no turn is ever given
  it (`RefinesLeases`);
* the channel `next_speaker_reason`, read for a turn's directive, is written by no node:
  the supervisor returns its reason as `reasoning`, which is not a channel;
* with two tabs on a meeting, a stop can find the row terminated, with an older transcript,
  and wait for the settings while a run started again from the other tab completes; with the
  purge rule it then writes the empty log and, as it changed nothing else, no status: a
  completed meeting without a transcript. TLC finds it for `CompletedHasTranscript` under
  plain `Spec` with one meeting, two sockets and two tasks;
* a create that found no active meeting inserts its row even where one has been started
  meanwhile (`MeetingRecord!Create`);
* settings: a read begun before a change can store its row after the change dropped the
  copy, and the refresh after a change's commit can fail before the copy is dropped
  (`settings_service.py:100`); the old settings then stay in force until the next change (the
  `late` and `missed` cases of `StaleAccountedFor`). The docstring has it that "a settings
  write bumps the version so the next read refreshes" (`settings_service.py:8-9`): it does
  not in either case, and `_version` is compared by nobody;
* operators: an operator token configured with blanks around it, a trailing newline of a
  Secret for one, starts the process and is refused on every request
  (`SteerableUnlessPadded`);
* embeddings: of two first calls in flight, the second to be refused raises instead of
  retrying, since the registry is already set (the `met` case of `RefusedOnlyMet`); the
  test for a missing `input_type` matches text of the exception;
* documents: an upload whose processing fails, the commit of its chunks included, or is lost
  to a restart stays unsearchable,
  with nothing that would process it again; so does a clone made of it, which also takes
  over its sample mark and name. Ids of deleted documents stay in template defaults and in
  `uploaded_brief_docs`;
* setup: overlapping runs duplicate personas, templates and samples. A role created before
  the first setup means that personas are never inserted, and every setup then fails at the
  templates' index into the roles (`seed.py:591`) while `check_db_ready` calls the database
  ready, whose docstring says "migrated and seeded". Reconciling reads the role ids in no
  order (`seed.py:489`), so the attendees a template names may change. Where documents
  exist and none is a sample, templates take all of them as their default documents;
* status: `_model_is_served` ignores tags on both sides (`TagsNeverMatter`), where its
  docstring compares them unless one side has none;
* code execution: the client's timeout and the job server's limit may be equal (90 s), so
  that a job ending at its limit races its reader; a claim the manager has given up is left
  to the deadline; the runtime reports "Code execution is unavailable" as a success
  (`runtime/agent.py:199`); `_is_forbidden` goes by the text of the error; the artifact
  writer runs outside the `try`, so files stored before it failed stay;
* internal API: a search for which no filter applies is unfiltered (a pod without the
  labels), which is why `OwnLibrariesOnly` asks for a labelled identity; the owner an action
  item names is not stored.

## 4. The proofs

All theorems hold for any sets of meetings, sockets, tasks, agents, runs, claims and
attendees and any bound, from the named assumptions of the modules only: `None` is new, the
bounds are natural numbers, the rules are the two there are, the limit and the cache are
not empty.

**`MeetingsProofs`.** `RegistryAccurate` and `ActiveRowExplained` are not inductive as they
stand. The invariant adds `Ownership` (an open socket and a born task belong to a meeting,
the same one, that is no longer a draft; a socket's task sends to that socket), because a
cancellation must be known to hit a task of the meeting whose row is then written;
`Sessions` (what a session can have left to write where its handler or task is); and
`Explained`, which says *which* tasks account for an active row: those that will write it
or can no longer write, and a cancelling one as long as its canceller has yet to write the
row or will cancel nothing more. A second cancellation that interrupts the first one's
commit is exactly the case the weaker statement cannot carry. `ImplementsRecord` maps
each action to a step of `MeetingRecord` or a stutter: what a commit does to a row is one of
few changes (`RowStep`), which `Sessions` keeps to what the stages allow.
Under `OneTabSpec` the invariant `TabInv` joins it: open handlers are on different meetings
(`OneHandler`), a live task is its meeting's entry and a start under way found none
(`Registered`), the handler holds the live task or has cancelled it before it went
(`Held`), a handler about to write `terminated` has cancelled the only task that could
overwrite it (`Stopped`), and a termination with only a purge to write is of a row nobody has
started since it was read (`LatePurge`). `OneTask`, `StopHolds`, `CompletedKeepsTranscript`
and `OneTabGivesTurns` follow: the third because an outcome and its transcript are one commit
and by `LatePurge` no purge without a status comes after it, the last
because a run begins when its task, then the only live one, starts to stream, and no step
takes a task back; `meetings_two_tabs` shows the
stop overwritten without that environment, which is why it is part of the statement.

**`SandboxesProofs`.** The invariant says where the claim a run uses can be, and what the
table, the deletions and the lock can name, given that names are fresh. From it:
`BoundUnderOwnLabel`, `LeasedNotDeleting` and `LockHeldWhileClaiming`, for any overlap.

**`SandboxesOneRunProofs`.** With one run at a time (`Alone`), what a run read of the table
before it took the lock is still so after (`TableTrusted`): the missing re-check in
`acquire` is then harmless, and `ClaimsAccountedFor`, `BoundFlagIsTrue` and
`NoLeaseOverwritten` follow. `OneRunIsInTurn` shows that the environment is `RunsInTurn` and
nothing more: `Alone`, proved from it, lets no second run begin, and conversely. In
`ImplementsLeases` `Alone` makes the turn in a sandbox at most one (`OnlyServed`), and
`TableTrusted` with `OutOfReach` makes each step of it a step of `Leases`: a claim is granted
to an attendee whose entry is still empty, and while it was being made nobody could have it.

**`DeliberationProofs`.** `Placed` puts a turn under way within the limit and ties the
answer to its key; `Recorded` says a turn that passed the lookup has no row, or is excused
by a failed lookup, until it is recorded; `FirstThread` ties the thread of the first run to
its transcript; `Genuine` says that the store, the caches and an answer on its way hold only
what the model came up with, never the placeholder of a failed turn. From them:
`TurnsInOrder`, `WithinLimit`, `RecordIsWhatWasHeard`, `EveryoneHeardFirst`,
`RecordedNotReinvoked`, and `ImplementsMinutes`, in which each of the model's steps is one
step of `Minutes` or a stutter. `RunsAreBounded` is the half of `RunEnds` that needs no
fairness: each step of the run lowers `StepsLeft`, which a lost pod does not raise, so that a
run takes at most 11 steps for each turn of the limit and one more. TLC finds the same on
the instance of `deliberation_runs`. Two theorems about `ChairAnswer`, without
induction, say whom an answer names and, for all replies, on which rung the chair is heard.

**`ProfilesProofs`.** `resolve` covers what was asked for, no earlier profile does, it
drifts only when none does, code is never granted to who did not ask, and the tools seeded
for a title resolve to the profile seeded for it.

**`ExecSandboxesProofs`.** The invariant adds `Placed` (what a call holds where it is),
`Permitted` (who got how far), `Tokens` (a UID is given out once, so that a token or a job
names its own claim's sandbox or one that is gone), `Timed` (a claim is no older than its
job's post and clock together), `Closing` and `Answering` (who has an answer, and which).
The safety theorems follow, one per invariant of the run, `NothingDropped`, which says that
a success names every file of its job, and `ImplementsCalls`: each step is one step of
`CodeCalls` or a stutter. `Placed` and `Permitted` make a post a `Run` for the granted,
`Answering` makes a job's result the first answer, and `Closing` with it lets a call close
with a success only when all is stored.

**`LibraryProofs`.** `RefusedOnlyMet` needs `CallsMeet`: a call made untyped while the
registry is already set has met the call that set it. `ChunklessExplained` needs `BareKept`:
a clone that read no chunk is of a document that is remembered as bare, which it stays
whatever happens between the clone's two reads and its commit. Since a run of setup writes
in one commit, `SeededOnce` and `OpTellsTruth` need to relate its plan to the rows it will
be added to: while no two runs overlap, a run plans personas or templates only while there
are none (`RolesOnce`) and a sample only while none is there (`SamplesOnce`, for which
nobody else may make the document, `Unmade`); the roles a run goes on with are there or its
own (`Backed`); and a resting run plans nothing (`Alone`), so that one run's commit leaves
no other plan behind. `ImplementsShelf` holds however runs overlap. It needs that no id is
used twice (`RowsStay`, from `Unmade` and from `CopiesTrue`: the id of a clone being made is
left to it), so that a row stays as it is until it is deleted and a clone that reads its
source's chunks has the row the source still has, if it is there; and that a background
task works on an upload (`TasksTrue`). `ChunklessExplained` is proved and in no run: of a
clone without chunks, `RefinesShelf` says more.

**`ServicesProofs`.** For `SettingsCache`: what a task has read is some earlier content
(`Older`), a copy stored by a read that met no change is the row, about to be dropped, or missed by a
change that failed (`Fresh`), and whoever makes the row has met everybody else who does (`Racing`). For
`Access` and `Readiness`: theorems about operators, no induction.

**Only model-checked.** The liveness properties (`ActiveRowSettles`, `TurnsEnd`,
`RunEnds`, `ClaimsEnd`, `CallsEnd`, `UploadsSettle`, `SetupReported`), which need fairness
and ENABLED, out of the prover's reach (of `RunEnds` the bound on a run's steps is proved), and `ThoughtsStayPrivate`, an induction over utterances.

## 5. What is not modelled, and the plan

Left for later, in order:

1. **Frontend event store**, as far as its state matters: events are only shown.
2. **`llm_proxy`** of `internal.py`: a relay of model calls with a limit per request.

Also left out of `Meetings`: database faults other than a row that is gone or inserted twice,
the second execution that `ALLOW_VOLATILE_CHECKPOINTS` permits after a failed first one, and
the summary, which goes with the transcript.

Not planned: templates of users (rows nothing else reads), telemetry and configuration
(nothing is decided on them but what `Access` and `Readiness` take as parameters), parsing,
splitting, embeddings and similarity (pure data), the signing and encoding of router tokens,
the chart and images (static), the tool loop inside a model call (a library's), what a job's
code does, `discover` of models (it asks and shows).
