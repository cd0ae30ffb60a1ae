------------------------------ MODULE Meetings ------------------------------
(***************************************************************************)
(* The life of a meeting in the backend process: the REST handlers that    *)
(* create and delete its row, the WebSocket handlers that start and stop   *)
(* it (api/routes/meetings.py), the asyncio task that executes it          *)
(* (services/meeting_executor.py), and a restart of the process with the   *)
(* reaper that runs at startup (main.py, sandbox/reaper.py).               *)
(*                                                                         *)
(* An action is the code between two awaits at which another coroutine can *)
(* run and see or change what this one uses.  A commit is merged with the  *)
(* local steps that follow it when nothing another coroutine does can tell *)
(* them apart; the select before it is a step of its own.  Between the two *)
(* a session holds what it has assigned and not written: SQLAlchemy writes *)
(* only the attributes that differ from the row the session had read, and  *)
(* a commit whose row is gone fails.  Cancellation is asyncio's: cancel()  *)
(* makes CancelledError the next thing the task sees, and a task cancelled *)
(* before its first step never enters its own try block.                   *)
(***************************************************************************)
EXTENDS Naturals

CONSTANTS
    Meeting,      \* meeting rows
    Socket,       \* WebSocket connections, each used once
    Task,         \* execution tasks, each created once: bounds the starts
    Rules,        \* the cleanup rules the operator may have in force
    MaxRestarts,  \* bound on process restarts
    None

ASSUME NoneIsNew == None \notin Meeting \union Socket \union Task
ASSUME RulesAreKnown == Rules \subseteq {"keep", "purge"} /\ Rules # {}
ASSUME RestartsBounded == MaxRestarts \in Nat

VARIABLES
    status,      \* the row's status column; "none" before the insert
    log,         \* the task whose transcript the row holds, or None
    settingsRow, \* the system_settings row has been inserted
    registry,    \* active_meetings: the task registered for each meeting
    spc,         \* where each socket's handler is
    smeeting,    \* the meeting in the socket's URL
    own,         \* the handler's local execution_task
    sdirty,      \* what the handler's session has yet to write
    connected,   \* sockets whose client is still there
    tpc,         \* where each task is
    tmeeting,    \* the meeting a task executes
    tsocket,     \* the socket a task sends its events to
    tdirty,      \* what the task's session has yet to write
    creating,    \* creates that found no active meeting and have yet to insert
    reaped,      \* this process's startup reaper succeeded
    restarts

row   == <<status, log, settingsRow>>
socks == <<spc, smeeting, own, connected, sdirty>>
tasks == <<tpc, tmeeting, tsocket, tdirty>>
proc  == <<creating, reaped, restarts>>
vars  == <<row, registry, socks, tasks, proc>>

Active  == {"queued", "running"}                     \* blocks a create
Runnable == Active \union {"draft"}                  \* what the executor accepts
Ended   == {"completed", "failed", "terminated"}
Status  == Runnable \union Ended \union {"none", "deleted"}
Exists(m) == status[m] \notin {"none", "deleted"}

Running == {"fetching", "configuring", "streaming", "concluding", "refusing", "releasing"}
Live    == Running \union {"created", "cancelling", "terminating", "unwinding"}
\* How a task can be over: it ran to its end, an exception it does not handle
\* ended it, or it was cancelled before its first step.
Over    == {"done", "died", "stillborn"}

\* What a stream comes to: an exception in the graph becomes an error event, and
\* an error event makes the run a failed one.
Outcome == {"completed", "failed"}

\* A session's unwritten changes: the attributes assigned a value other than
\* the one it read, and whether it found no settings row and will insert it.
Dirty == [status : {"same", "queued", "running", "terminated"} \union Outcome,
          log : {"same", "purged", "own"},
          settings : BOOLEAN]

Clean == [status |-> "same", log |-> "same", settings |-> FALSE]

Init ==
    /\ status = [m \in Meeting |-> "none"]
    /\ log = [m \in Meeting |-> None]
    /\ settingsRow \in BOOLEAN
    /\ registry = [m \in Meeting |-> None]
    /\ spc = [s \in Socket |-> "unopened"]
    /\ smeeting = [s \in Socket |-> None]
    /\ own = [s \in Socket |-> None]
    /\ sdirty = [s \in Socket |-> Clean]
    /\ connected = {}
    /\ tpc = [t \in Task |-> "unborn"]
    /\ tmeeting = [t \in Task |-> None]
    /\ tsocket = [t \in Task |-> None]
    /\ tdirty = [t \in Task |-> Clean]
    /\ creating = {}
    /\ reaped = TRUE
    /\ restarts = 0
-----------------------------------------------------------------------------
(***************************************************************************)
(* Sessions: what assigning to a row just read leaves to write, and what   *)
(* the commit makes of the row as it is by then.                           *)
(***************************************************************************)
\* The value an assignment leaves dirty: none when the row was read with it.
Assigned(m, st) == IF status[m] = st THEN "same" ELSE st

\* A handler that finds the row assigns to it; one that does not commits nothing.
Changes(m, st, lg) ==
    IF Exists(m) THEN [status |-> Assigned(m, st), log |-> lg, settings |-> FALSE]
    ELSE Clean

\* What the cleanup rule in force does to the transcript read.
CleanUp(m) ==
    {IF rule = "purge" /\ log[m] # None THEN "purged" ELSE "same" : rule \in Rules}

\* Mutation: the row waits in "stopping", a status models/meetings.py names.
TerminateLater(m) == {Changes(m, "stopping", lg) : lg \in CleanUp(m)}

\* Mutation: an outcome already written is kept, and the cleanup applied to it.
TerminateKeepingOutcome(m) ==
    IF status[m] \in Runnable THEN {Changes(m, "terminated", lg) : lg \in CleanUp(m)}
    ELSE {[Clean EXCEPT !.log = lg] : lg \in CleanUp(m)}

\* A termination, of stop_meeting or of the CancelledError handler: the status,
\* and the cleanup rule, for which it reads the settings.
Termination(m) ==
    {[Changes(m, "terminated", lg) EXCEPT !.settings = Exists(m) /\ ~settingsRow] :
        lg \in CleanUp(m)}

\* The UPDATE of a row deleted since it was read matches none, and raises.
Lost(m, d) == (d.status # "same" \/ d.log # "same") /\ ~Exists(m)

Flush(m, d, t) ==
    /\ ~Lost(m, d)
    /\ status' = IF d.status = "same" THEN status ELSE [status EXCEPT ![m] = d.status]
    /\ log' = IF d.log = "same" THEN log
              ELSE [log EXCEPT ![m] = IF d.log = "own" THEN t ELSE None]

\* Inserting the settings row commits the session it is inserted through, with
\* what that has assigned so far: the status, and not yet the cleanup.
InsertSettings(m, d) ==
    /\ d.settings /\ ~settingsRow
    /\ settingsRow' = TRUE
    /\ Flush(m, [d EXCEPT !.log = "same"], None)

\* The commit of a session that has the settings: it found their row, or has
\* inserted it.
Commit(m, d, t) ==
    /\ d.settings => settingsRow
    /\ Flush(m, d, t)
    /\ UNCHANGED settingsRow

\* A session fails whose row is gone, or whose insert of the settings row comes
\* after another's.
Fails(m, d) == Lost(m, d) \/ (d.settings /\ settingsRow)
-----------------------------------------------------------------------------
(***************************************************************************)
(* REST handlers.                                                          *)
(***************************************************************************)
\* Mutation: the check for an active meeting is dropped.
CreateUnchecked(m) ==
    /\ status[m] = "none"
    /\ creating' = creating \union {m}
    /\ UNCHANGED <<row, registry, socks, tasks, reaped, restarts>>

CreateCheck(m) ==
    /\ status[m] = "none" /\ m \notin creating
    /\ \A n \in Meeting : status[n] \notin Active
    /\ creating' = creating \union {m}
    /\ UNCHANGED <<row, registry, socks, tasks, reaped, restarts>>

\* The insert looks at nothing again.
CreateMeeting(m) ==
    /\ m \in creating
    /\ creating' = creating \ {m}
    /\ status' = [status EXCEPT ![m] = "draft"]
    /\ UNCHANGED <<log, settingsRow, registry, socks, tasks, reaped, restarts>>

\* Deleting looks at nothing but the row: a task of the meeting runs on.
DeleteMeeting(m) ==
    /\ Exists(m)
    /\ status' = [status EXCEPT ![m] = "deleted"]
    /\ log' = [log EXCEPT ![m] = None]
    /\ UNCHANGED <<settingsRow, registry, socks, tasks, proc>>
-----------------------------------------------------------------------------
(***************************************************************************)
(* The WebSocket handler: one command at a time, in the order received.    *)
(***************************************************************************)
Connect(s, m) ==
    /\ spc[s] = "unopened"
    /\ status[m] # "none"
    /\ spc' = [spc EXCEPT ![s] = "receiving"]
    /\ smeeting' = [smeeting EXCEPT ![s] = m]
    /\ connected' = connected \union {s}
    /\ UNCHANGED <<row, registry, own, sdirty, tasks, proc>>

\* The client goes away; its handler notices at its next receive.
ClientDrops(s) ==
    /\ s \in connected
    /\ connected' = connected \ {s}
    /\ UNCHANGED <<row, registry, spc, smeeting, own, sdirty, tasks, proc>>

HandlerGoto(s, from, to) ==
    /\ spc[s] = from
    /\ spc' = [spc EXCEPT ![s] = to]
    /\ UNCHANGED <<smeeting, connected>>

\* Mutation: the registry is not looked at.
StartUnchecked(s) ==
    /\ HandlerGoto(s, "receiving", "starting")
    /\ UNCHANGED <<row, registry, own, sdirty, tasks, proc>>

\* start_meeting, when no task is registered (otherwise it only answers with
\* an error).  The handler then waits for the database.
StartCheck(s) ==
    /\ HandlerGoto(s, "receiving", "starting")
    /\ registry[smeeting[s]] = None
    /\ UNCHANGED <<row, registry, own, sdirty, tasks, proc>>

StartRead(s) ==
    /\ HandlerGoto(s, "starting", "queueing")
    /\ sdirty' = [sdirty EXCEPT ![s] = Changes(smeeting[s], "queued", "same")]
    /\ UNCHANGED <<row, registry, own, tasks, proc>>

\* The row becomes "queued" whatever it was, then the task is created and
\* registered, over whatever entry is there by now.
StartCommit(s, t) ==
    LET m == smeeting[s] IN
    /\ HandlerGoto(s, "queueing", "receiving")
    /\ tpc[t] = "unborn"
    /\ Commit(m, sdirty[s], None)
    /\ sdirty' = [sdirty EXCEPT ![s] = Clean]
    /\ tpc' = [tpc EXCEPT ![t] = "created"]
    /\ tmeeting' = [tmeeting EXCEPT ![t] = m]
    /\ tsocket' = [tsocket EXCEPT ![t] = s]
    /\ own' = [own EXCEPT ![s] = t]
    /\ registry' = [registry EXCEPT ![m] = t]
    /\ UNCHANGED <<tdirty, proc>>

\* What Task.cancel() makes of a task: one that has not taken a step never
\* will; one inside send_events moves to its CancelledError handler; one
\* already in that handler is thrown out of it.
Cancelled(p) ==
    IF p = "created" THEN "stillborn"
    ELSE IF p \in Running THEN "cancelling"
    ELSE IF p \in {"cancelling", "terminating"} THEN "unwinding"
    ELSE p

\* Mutation: the status is written, the task is left to run.
CancelNothing(s) == UNCHANGED <<tpc, tdirty>>

CancelOwn(s) ==
    /\ tpc' = [t \in Task |-> IF t = own[s] THEN Cancelled(tpc[t]) ELSE tpc[t]]
    /\ tdirty' = [t \in Task |-> IF t = own[s] THEN Clean ELSE tdirty[t]]

StopCommand(s) ==
    /\ HandlerGoto(s, "receiving", "stopping")
    /\ CancelOwn(s)
    /\ UNCHANGED <<row, registry, own, sdirty, tmeeting, tsocket, proc>>

StopRead(s) ==
    /\ HandlerGoto(s, "stopping", "terminating")
    /\ \E d \in Termination(smeeting[s]) : sdirty' = [sdirty EXCEPT ![s] = d]
    /\ UNCHANGED <<row, registry, own, tasks, proc>>

StopSettings(s) ==
    /\ spc[s] = "terminating"
    /\ InsertSettings(smeeting[s], sdirty[s])
    /\ sdirty' = [sdirty EXCEPT ![s] = [Clean EXCEPT !.log = sdirty[s].log]]
    /\ UNCHANGED <<registry, spc, smeeting, own, connected, tasks, proc>>

StopCommit(s) ==
    /\ HandlerGoto(s, "terminating", "receiving")
    /\ Commit(smeeting[s], sdirty[s], None)
    /\ sdirty' = [sdirty EXCEPT ![s] = Clean]
    /\ UNCHANGED <<registry, own, tasks, proc>>

\* A session that fails ends the handler, which then cancels nothing.
HandlerDies(s) ==
    /\ spc[s] \in {"queueing", "terminating"}
    /\ Fails(smeeting[s], sdirty[s])
    /\ spc' = [spc EXCEPT ![s] = "gone"]
    /\ sdirty' = [sdirty EXCEPT ![s] = Clean]
    /\ UNCHANGED <<row, registry, smeeting, own, connected, tasks, proc>>

Disconnect(s) ==
    /\ HandlerGoto(s, "receiving", "gone")
    /\ s \notin connected
    /\ CancelOwn(s)
    /\ UNCHANGED <<row, registry, own, sdirty, tmeeting, tsocket, proc>>
-----------------------------------------------------------------------------
(***************************************************************************)
(* The task: send_events around run_meeting_execution.                     *)
(***************************************************************************)
\* Mutation: the entry is never dropped.
LeaveEntry(t, how) ==
    /\ tpc' = [tpc EXCEPT ![t] = how]
    /\ tdirty' = [tdirty EXCEPT ![t] = Clean]
    /\ UNCHANGED registry

\* The finally block drops the meeting's entry, whichever task it names.
Leave(t, how) ==
    /\ tpc' = [tpc EXCEPT ![t] = how]
    /\ tdirty' = [tdirty EXCEPT ![t] = Clean]
    /\ registry' = [registry EXCEPT ![tmeeting[t]] = None]

\* The task goes on with d to write.
Goto(t, from, to, d) ==
    /\ tpc[t] = from
    /\ tpc' = [tpc EXCEPT ![t] = to]
    /\ tdirty' = [tdirty EXCEPT ![t] = d]
    /\ UNCHANGED registry

TaskEnter(t) ==
    /\ Goto(t, "created", "fetching", Clean)
    /\ UNCHANGED <<row, socks, tmeeting, tsocket, proc>>

\* "running" is assigned to the row read, in the session that stays open for the
\* whole run and is not committed for it.
TaskAccept(t) ==
    LET m == tmeeting[t] IN
    /\ Goto(t, "fetching", "configuring",
            [Changes(m, "running", "same") EXCEPT !.settings = ~settingsRow])
    /\ status[m] \in Runnable
    /\ UNCHANGED <<row, socks, tmeeting, tsocket, proc>>

TaskRejectStatus(t) ==
    /\ tpc[t] = "fetching"
    /\ status[tmeeting[t]] \notin Runnable
    /\ Leave(t, "done")
    /\ UNCHANGED <<row, socks, tmeeting, tsocket, proc>>

\* It only reaches the database when reading the settings inserts their row.
TaskConfigure(t) ==
    /\ Goto(t, "configuring", "streaming", Clean)
    /\ \/ InsertSettings(tmeeting[t], tdirty[t])
       \/ (tdirty[t].settings => settingsRow) /\ UNCHANGED row
    /\ UNCHANGED <<socks, tmeeting, tsocket, proc>>

\* No profile covers an attendee, or there is no durable checkpointer: the run
\* is refused without a transcript.
TaskRefuse(t) ==
    /\ Goto(t, "streaming", "refusing", Changes(tmeeting[t], "failed", "same"))
    /\ UNCHANGED <<row, socks, tmeeting, tsocket, proc>>

\* Mutation: the refusal is only reported to the client.
RefuseSilently(t) ==
    /\ tpc[t] = "refusing"
    /\ Leave(t, "done")
    /\ UNCHANGED <<row, socks, tmeeting, tsocket, proc>>

TaskRefused(t) ==
    /\ tpc[t] = "refusing"
    /\ Commit(tmeeting[t], tdirty[t], t)
    /\ Leave(t, "done")
    /\ UNCHANGED <<socks, tmeeting, tsocket, proc>>

\* The stream is over: outcome and transcript are for one commit.
TaskConclude(t) ==
    /\ \E outcome \in Outcome :
          Goto(t, "streaming", "concluding", Changes(tmeeting[t], outcome, "own"))
    /\ UNCHANGED <<row, socks, tmeeting, tsocket, proc>>

TaskFinish(t) ==
    /\ Goto(t, "concluding", "releasing", Clean)
    /\ Commit(tmeeting[t], tdirty[t], t)
    /\ UNCHANGED <<socks, tmeeting, tsocket, proc>>

TaskReleased(t) ==
    /\ tpc[t] = "releasing"
    /\ Leave(t, "done")
    /\ UNCHANGED <<row, socks, tmeeting, tsocket, proc>>

\* An exception ends the run: sending to a client that is gone, or a session
\* that fails.  A conclusion that fails is caught, and reported as a refusal.
TaskDies(t) ==
    /\ \/ tpc[t] \in {"configuring", "streaming"} /\ tsocket[t] \notin connected
       \/ /\ tpc[t] = "configuring" /\ tdirty[t].settings
          /\ Fails(tmeeting[t], tdirty[t])
       \/ /\ tpc[t] \in {"concluding", "refusing", "terminating"}
          /\ Fails(tmeeting[t], tdirty[t])
    /\ \/ Leave(t, "died")
       \/ tpc[t] = "concluding" /\ Leave(t, "done")
    /\ UNCHANGED <<row, socks, tmeeting, tsocket, proc>>

\* Mutation: a cancelled run only leaves.
CancelledSilently(t) ==
    /\ tpc[t] = "cancelling"
    /\ Leave(t, "done")
    /\ UNCHANGED <<row, socks, tmeeting, tsocket, proc>>

\* The CancelledError handler terminates the meeting whatever its row says.
TaskCancelled(t) ==
    /\ tpc[t] = "cancelling"
    /\ \E d \in Termination(tmeeting[t]) : Goto(t, "cancelling", "terminating", d)
    /\ UNCHANGED <<row, socks, tmeeting, tsocket, proc>>

TaskSettings(t) ==
    /\ Goto(t, "terminating", "terminating", [Clean EXCEPT !.log = tdirty[t].log])
    /\ InsertSettings(tmeeting[t], tdirty[t])
    /\ UNCHANGED <<socks, tmeeting, tsocket, proc>>

TaskTerminates(t) ==
    /\ tpc[t] = "terminating"
    /\ Commit(tmeeting[t], tdirty[t], t)
    /\ Leave(t, "done")
    /\ UNCHANGED <<socks, tmeeting, tsocket, proc>>

\* A second cancel() interrupts that handler before its commit.
TaskUnwind(t) ==
    /\ tpc[t] = "unwinding"
    /\ Leave(t, "done")
    /\ UNCHANGED <<row, socks, tmeeting, tsocket, proc>>
-----------------------------------------------------------------------------
(***************************************************************************)
(* The process dies with every socket and task, and a new one reaps the    *)
(* rows left live before it serves.  A reaper that fails is logged only.   *)
(***************************************************************************)
Reap ==
    /\ status' = [m \in Meeting |->
                    IF status[m] \in Active THEN "terminated" ELSE status[m]]
    /\ reaped' = TRUE

Restart ==
    /\ restarts < MaxRestarts
    /\ restarts' = restarts + 1
    /\ Reap \/ (UNCHANGED status /\ reaped' = FALSE)
    /\ registry' = [m \in Meeting |-> None]
    /\ spc' = [s \in Socket |-> IF spc[s] = "unopened" THEN "unopened" ELSE "gone"]
    /\ sdirty' = [s \in Socket |-> Clean]
    /\ connected' = {}
    /\ tpc' = [t \in Task |-> IF tpc[t] \in Live THEN "done" ELSE tpc[t]]
    /\ tdirty' = [t \in Task |-> Clean]
    /\ creating' = {}
    /\ UNCHANGED <<log, settingsRow, smeeting, own, tmeeting, tsocket>>
-----------------------------------------------------------------------------
Rest == \E m \in Meeting : CreateCheck(m) \/ CreateMeeting(m) \/ DeleteMeeting(m)

\* A stop under way is finished: nothing it waits for is the client's to give.
StopStep(s) == StopRead(s) \/ StopSettings(s) \/ StopCommit(s) \/ HandlerDies(s)

HandlerStep(s) ==
    \/ StartCheck(s) \/ StartRead(s)
    \/ \E t \in Task : StartCommit(s, t)
    \/ StopCommand(s)
    \/ StopStep(s)
    \/ Disconnect(s)

TaskStep(t) ==
    \/ TaskEnter(t) \/ TaskAccept(t) \/ TaskRejectStatus(t) \/ TaskConfigure(t)
    \/ TaskRefuse(t) \/ TaskRefused(t) \/ TaskConclude(t) \/ TaskFinish(t)
    \/ TaskReleased(t) \/ TaskDies(t)
    \/ TaskCancelled(t) \/ TaskSettings(t) \/ TaskTerminates(t) \/ TaskUnwind(t)

Next ==
    \/ Rest
    \/ \E s \in Socket : \E m \in Meeting : Connect(s, m)
    \/ \E s \in Socket : ClientDrops(s) \/ HandlerStep(s)
    \/ \E t \in Task : TaskStep(t)
    \/ Restart

Spec == Init /\ [][Next]_vars

\* The event loop runs every coroutine that is ready, the database answers, and
\* a run's stream ends: its turns are bounded and each call has a deadline.
\* Nothing makes a client act, the handler finish a start, or a process crash.
Fairness ==
    /\ \A t \in Task : WF_vars(TaskStep(t))
    /\ \A s \in Socket : WF_vars(StopStep(s)) /\ WF_vars(Disconnect(s))

FairSpec == Spec /\ Fairness

\* The environment of one browser tab per meeting: a tab is opened on a meeting
\* only when the handlers of the earlier ones are gone.
OneTabNext ==
    /\ Next
    /\ \A s, u \in Socket :
         spc[s] = "unopened" /\ spc'[s] = "receiving" /\ smeeting[u] = smeeting'[s]
           => spc[u] = "gone"

OneTabSpec == Init /\ [][OneTabNext]_vars

OneTabFairSpec == OneTabSpec /\ Fairness
-----------------------------------------------------------------------------
(***************************************************************************)
(* Properties.                                                             *)
(***************************************************************************)
\* Every variable has its type.
TypeOK ==
    /\ status \in [Meeting -> Status]
    /\ log \in [Meeting -> Task \union {None}]
    /\ settingsRow \in BOOLEAN
    /\ registry \in [Meeting -> Task \union {None}]
    /\ spc \in [Socket -> {"unopened", "receiving", "starting", "queueing",
                            "stopping", "terminating", "gone"}]
    /\ smeeting \in [Socket -> Meeting \union {None}]
    /\ own \in [Socket -> Task \union {None}]
    /\ sdirty \in [Socket -> Dirty]
    /\ connected \subseteq Socket
    /\ tpc \in [Task -> Live \union Over \union {"unborn"}]
    /\ tmeeting \in [Task -> Meeting \union {None}]
    /\ tsocket \in [Task -> Socket \union {None}]
    /\ tdirty \in [Task -> Dirty]
    /\ creating \subseteq Meeting
    /\ reaped \in BOOLEAN
    /\ restarts \in 0 .. MaxRestarts

\* An entry of active_meetings names a task of that meeting that is still to
\* end, or one that was cancelled before its first step: every other way a task
\* ends removes the entry (the finally block of send_events).
RegistryAccurate ==
    \A m \in Meeting : registry[m] # None =>
        /\ tmeeting[registry[m]] = m
        /\ tpc[registry[m]] \in Live \union {"stillborn"}

\* A row left queued or running, which refuses every create, is being driven by
\* a task, or one of its tasks ended without writing: it died on an exception
\* it does not handle, or never took its first step.  A process whose reaper
\* succeeded inherits no such row.
ActiveRowExplained ==
    \A m \in Meeting : reaped /\ status[m] \in Active =>
        \E t \in Task : tmeeting[t] = m /\ tpc[t] \in Live \union {"died", "stillborn"}

\* A completed meeting has its transcript, with one tab per meeting: no stop that
\* read the row before an outcome was committed purges the transcript after it.
\* With two tabs one may, as it writes the purge and not the status it found.
CompletedHasTranscript ==
    \A m \in Meeting : status[m] = "completed" => log[m] # None

\* A terminated meeting stays so until it is started again or deleted: a run
\* still winding down never replaces the operator's stop with its own outcome.
StopIsFinal ==
    [][\A m \in Meeting : status[m] = "terminated" =>
            status'[m] \in {"terminated", "queued", "deleted"}]_vars

\* At most one task at a time executes a meeting.
OneTaskPerMeeting ==
    \A t, u \in Task : tpc[t] \in Live /\ tpc[u] \in Live /\ tmeeting[t] = tmeeting[u]
        => t = u

\* A row does not stay active for ever: it ends, or a task of it ended without
\* writing.
ActiveRowSettles ==
    \A m \in Meeting :
        status[m] \in Active ~>
            \/ status[m] \notin Active
            \/ ~reaped
            \/ \E t \in Task : tmeeting[t] = m /\ tpc[t] \in {"died", "stillborn"}

\* At most one meeting is active at a time.
OneActiveMeeting ==
    \A m, n \in Meeting : status[m] \in Active /\ status[n] \in Active => m = n

\* With the keep rule, the record survives the browser: a run that is cut off
\* while it streams, and whose meeting is then terminated, leaves a transcript.
TranscriptSurvivesDisconnect ==
    \A t \in Task :
        [](tpc[t] = "streaming" => [](tpc[t] = "cancelling" =>
             [](tpc[t] = "done" /\ status[tmeeting[t]] = "terminated"
                  => log[tmeeting[t]] # None)))

(***************************************************************************)
(* Refinement: the row as a reader sees it.                                *)
(***************************************************************************)
StageOf(st) ==
    IF st \in {"none", "draft"} THEN st
    ELSE IF st \in Active THEN "live"
    ELSE IF st = "deleted" THEN "gone"
    ELSE "over"

Record == INSTANCE MeetingRecord WITH
    stage <- [m \in Meeting |-> IF m \in creating THEN "asked" ELSE StageOf(status[m])],
    transcript <- {m \in Meeting : log[m] # None}

\* Sockets, tasks, cancellations and restarts together only ever move a row the
\* way MeetingRecord allows.
RefinesRecord == Record!RecordSpec
(***************************************************************************)
(* Refinement: the runs as the sandboxes and the deliberation see them.  A *)
(* task is a run from the start of its stream to the release at its end.   *)
(***************************************************************************)
PhaseOf(p) ==
    IF p \in {"unborn", "created", "fetching", "configuring"} THEN "idle"
    ELSE IF p \in {"streaming", "concluding", "refusing", "releasing"} THEN "active"
    ELSE "over"

Turns == INSTANCE RunsInTurn WITH
    Run <- Task,
    phase <- [t \in Task |-> PhaseOf(tpc[t])],
    meeting <- tmeeting

\* With one tab per meeting, the runs of a meeting take turns: what Sandboxes and
\* Deliberation assume.
RunsTakeTurns == Turns!TurnsSpec
=============================================================================
