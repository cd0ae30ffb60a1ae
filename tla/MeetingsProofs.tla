--------------------------- MODULE MeetingsProofs ---------------------------
(***************************************************************************)
(* Proofs about Meetings, for any meetings, sockets, tasks and restarts.   *)
(* The inductive invariant is TypeOK with Ownership, Sessions,             *)
(* RegistryAccurate and Explained.                                         *)
(* Under one tab per meeting TabInv joins it, runs take turns, and a       *)
(* completed meeting has its transcript.                                   *)
(***************************************************************************)
EXTENDS Meetings, TLAPS

\* Who belongs to whom: an open socket and a task that was created have a
\* meeting, the same one; a socket's own task sends to that socket; and a
\* meeting with a task is no longer a draft.  A create under way has no row.
Ownership ==
    /\ \A m \in creating : status[m] = "none"
    /\ \A s \in Socket : spc[s] # "unopened" =>
          smeeting[s] \in Meeting /\ status[smeeting[s]] # "none"
    /\ \A s \in Socket : own[s] # None =>
          tpc[own[s]] # "unborn" /\ tsocket[own[s]] = s
    /\ \A t \in Task : tpc[t] # "unborn" =>
          /\ tmeeting[t] \in Meeting
          /\ tsocket[t] \in Socket
          /\ spc[tsocket[t]] # "unopened"
          /\ tmeeting[t] = smeeting[tsocket[t]]
          /\ status[tmeeting[t]] \notin {"none", "draft"}

\* What a session has yet to write, by where its coroutine is; and a start that
\* has nothing to write read a row that was no draft.
Sessions ==
    /\ \A s \in Socket :
          /\ spc[s] = "queueing" =>
                /\ sdirty[s].status \in {"same", "queued"} /\ sdirty[s].log = "same"
                /\ sdirty[s].status = "same" => status[smeeting[s]] # "draft"
          /\ spc[s] = "terminating" =>
                sdirty[s].status \in {"same", "terminated"} /\ sdirty[s].log \in {"same", "purged"}
    /\ \A t \in Task :
          /\ tpc[t] = "configuring" =>
                tdirty[t].status \in {"same", "running"} /\ tdirty[t].log = "same"
          /\ tpc[t] = "refusing" =>
                /\ tdirty[t].status \in {"same", "failed"} /\ tdirty[t].log = "same"
                /\ ~ tdirty[t].settings
          /\ tpc[t] = "concluding" =>
                /\ tdirty[t].status \in {"same"} \union Outcome
                /\ tdirty[t].log \in {"same", "own"}
                /\ tdirty[t].status # "same" => tdirty[t].log = "own"
                /\ ~ tdirty[t].settings
          /\ tpc[t] = "terminating" =>
                tdirty[t].status \in {"same", "terminated"} /\ tdirty[t].log \in {"same", "purged"}

\* What still accounts for an active row: a task that will write its status, one
\* that can no longer write, or one whose canceller has yet to write the status
\* or will cancel nothing more.
Explains(t, m) ==
    /\ tmeeting[t] = m
    /\ \/ tpc[t] \in {"created", "fetching", "configuring", "streaming",
                      "died", "stillborn"}
       \/ tpc[t] \in {"concluding", "refusing"} /\ tdirty[t].status # "same"
       \/ /\ tpc[t] = "cancelling" \/ (tpc[t] = "terminating" /\ tdirty[t].status # "same")
          /\ \/ spc[tsocket[t]] \in {"stopping", "gone"}
             \/ spc[tsocket[t]] = "terminating" /\ sdirty[tsocket[t]].status # "same"

Explained ==
    \A m \in Meeting : reaped /\ status[m] \in Active =>
        \E t \in Task : Explains(t, m)

USE NoneIsNew, RulesAreKnown, RestartsBounded
USE DEF Active, Runnable, Ended, Outcome, Status, Exists, Running, Live, Over, Dirty, Clean,
        row, socks, tasks, proc, vars

\* What a commit makes of a row: the attributes left dirty, when it is there.
LEMMA FlushWrites ==
    ASSUME TypeOK, NEW m \in Meeting, NEW d \in Dirty, NEW t \in Task \union {None},
           Flush(m, d, t)
    PROVE  /\ status' = [status EXCEPT ![m] = IF d.status = "same" THEN status[m] ELSE d.status]
           /\ log' = [log EXCEPT ![m] = IF d.log = "same" THEN log[m]
                                        ELSE IF d.log = "own" THEN t ELSE None]
           /\ status' \in [Meeting -> Status] /\ log' \in [Meeting -> Task \union {None}]
           /\ d.status # "same" \/ d.log # "same" => Exists(m)
<1>1. d.status # "same" \/ d.log # "same" => Exists(m)
  BY DEF Flush, Lost
<1>2. /\ status' = [status EXCEPT ![m] = IF d.status = "same" THEN status[m] ELSE d.status]
      /\ status' \in [Meeting -> Status]
  BY DEF TypeOK, Flush
<1>3. /\ log' = [log EXCEPT ![m] = IF d.log = "same" THEN log[m]
                                   ELSE IF d.log = "own" THEN t ELSE None]
      /\ log' \in [Meeting -> Task \union {None}]
  BY DEF TypeOK, Flush
<1>4. QED
  BY <1>1, <1>2, <1>3

\* Inserting the settings row writes the status of the meeting, and no transcript.
LEMMA InsertWrites ==
    ASSUME TypeOK, NEW m \in Meeting, NEW d \in Dirty, InsertSettings(m, d)
    PROVE  /\ status' = [status EXCEPT ![m] = IF d.status = "same" THEN status[m] ELSE d.status]
           /\ log' = log
           /\ status' \in [Meeting -> Status]
           /\ settingsRow' = TRUE
           /\ d.status # "same" => Exists(m)
<1>1. [d EXCEPT !.log = "same"] \in Dirty
  OBVIOUS
<1>2. Flush(m, [d EXCEPT !.log = "same"], None)
  BY DEF InsertSettings
<1>3. [d EXCEPT !.log = "same"].status = d.status /\ [d EXCEPT !.log = "same"].log = "same"
  OBVIOUS
<1>4. log' = log
  BY <1>2, <1>3 DEF Flush
<1>5. QED
  BY <1>1, <1>2, <1>3, <1>4, FlushWrites DEF InsertSettings

\* Whichever way a session reaches the database, the row gets its status.
LEMMA StatusWritten ==
    ASSUME TypeOK, NEW m \in Meeting, NEW d \in Dirty, NEW t \in Task \union {None},
           Commit(m, d, t) \/ InsertSettings(m, d)
    PROVE  \A n \in Meeting :
              status'[n] = IF n = m /\ d.status # "same" THEN d.status ELSE status[n]
<1>1. status' = [status EXCEPT ![m] = IF d.status = "same" THEN status[m] ELSE d.status]
  <2>1. CASE Commit(m, d, t)
    <3>1. Flush(m, d, t)
      BY <2>1 DEF Commit
    <3>2. QED
      BY <3>1, FlushWrites
  <2>2. CASE InsertSettings(m, d)
    BY <2>2, InsertWrites
  <2>3. QED
    BY <2>1, <2>2
<1>2. QED
  BY <1>1 DEF TypeOK

\* What a read leaves dirty.
LEMMA ChangesAre ==
    ASSUME TypeOK, NEW m \in Meeting, NEW st \in {"queued", "running", "terminated"} \union Outcome,
           NEW lg \in {"same", "purged", "own"}
    PROVE  /\ Changes(m, st, lg) \in Dirty
           /\ Changes(m, st, lg).status = IF Exists(m) /\ status[m] # st THEN st ELSE "same"
           /\ Changes(m, st, lg).log = IF Exists(m) THEN lg ELSE "same"
           /\ Changes(m, st, lg).settings = FALSE
BY DEF TypeOK, Changes, Assigned

LEMMA WithSettings ==
    ASSUME NEW d \in Dirty, NEW b \in BOOLEAN
    PROVE  /\ [d EXCEPT !.settings = b] \in Dirty
           /\ [d EXCEPT !.settings = b].status = d.status
           /\ [d EXCEPT !.settings = b].log = d.log
OBVIOUS

LEMMA TerminationIs ==
    ASSUME TypeOK, NEW m \in Meeting, NEW d \in Termination(m)
    PROVE  /\ d \in Dirty
           /\ d.status = IF Exists(m) /\ status[m] # "terminated" THEN "terminated" ELSE "same"
           /\ d.log \in {"same", "purged"}
<1>1. PICK lg \in CleanUp(m) :
        d = [Changes(m, "terminated", lg) EXCEPT !.settings = Exists(m) /\ ~settingsRow]
  BY DEF Termination
<1>2. lg \in {"same", "purged"}
  BY DEF CleanUp
<1>3. (Exists(m) /\ ~settingsRow) \in BOOLEAN
  OBVIOUS
<1> DEFINE c == Changes(m, "terminated", lg)
           b == Exists(m) /\ ~settingsRow
<1>4. /\ c \in Dirty /\ c.log \in {"same", "purged"}
      /\ c.status = IF Exists(m) /\ status[m] # "terminated" THEN "terminated" ELSE "same"
  <2>1. /\ lg \in {"same", "purged", "own"}
        /\ "terminated" \in {"queued", "running", "terminated"} \union Outcome
    BY <1>2
  <2>2. c \in Dirty
    BY <2>1, ChangesAre
  <2>3. c.log = IF Exists(m) THEN lg ELSE "same"
    BY DEF Changes
  <2>4. c.status = IF Exists(m) /\ status[m] # "terminated" THEN "terminated" ELSE "same"
    BY DEF Changes, Assigned
  <2>5. QED
    BY <1>2, <2>2, <2>3, <2>4
<1>5. d = [c EXCEPT !.settings = b] /\ b \in BOOLEAN
  BY <1>1, <1>3
<1> HIDE DEF c, b
<1>6. d \in Dirty /\ d.status = c.status /\ d.log = c.log
  BY <1>4, <1>5, WithSettings
<1>7. QED
  BY <1>4, <1>6

\* Every step of a task is its own: it changes its place and its session, drops
\* at most its meeting's entry, and writes at most its meeting's row.
TaskWrites(t, st, lg) ==
    /\ status' = [status EXCEPT ![tmeeting[t]] = st]
    /\ log' = [log EXCEPT ![tmeeting[t]] = lg]
    /\ st # status[tmeeting[t]] \/ lg # log[tmeeting[t]] => Exists(tmeeting[t])

Drives(t) == tpc[t] \in Running \union {"created"}

TaskGoesOn(t) ==
    /\ UNCHANGED registry
    /\ \E p \in Live, d \in Dirty :
          /\ tpc' = [tpc EXCEPT ![t] = p] /\ tdirty' = [tdirty EXCEPT ![t] = d]
          /\ \/ Drives(t) /\ p \in Running
             \/ tpc[t] \in {"cancelling", "terminating"} /\ p = "terminating"

TaskLeaves(t) == \E how \in {"done", "died"} : tpc[t] \in Live /\ Leave(t, how)

LEMMA TaskMoves ==
    ASSUME TypeOK, Ownership, NEW t \in Task, TaskStep(t)
    PROVE  /\ tmeeting[t] \in Meeting /\ tpc[t] \in Live
           /\ UNCHANGED <<socks, tmeeting, tsocket, proc>>
           /\ TaskGoesOn(t) \/ TaskLeaves(t)
           /\ settingsRow' \in BOOLEAN
<1> USE DEF TypeOK, Drives, TaskGoesOn, TaskLeaves
<1>0. tpc[t] # "unborn" => tmeeting[t] \in Meeting
  BY DEF Ownership
<1>a. Clean \in Dirty
  OBVIOUS
<1>1. CASE TaskEnter(t)
  BY <1>0, <1>1, <1>a DEF TaskEnter, Goto
<1>2. CASE TaskAccept(t)
  <2>1. tmeeting[t] \in Meeting
    BY <1>0, <1>2 DEF TaskAccept, Goto
  <2>2. [Changes(tmeeting[t], "running", "same") EXCEPT !.settings = ~settingsRow] \in Dirty
    <3>1. Changes(tmeeting[t], "running", "same") \in Dirty /\ (~settingsRow) \in BOOLEAN
      BY <2>1, ChangesAre
    <3>2. QED
      BY <3>1, WithSettings
  <2>3. QED
    BY <1>2, <2>1, <2>2 DEF TaskAccept, Goto
<1>3. CASE TaskConfigure(t)
  BY <1>0, <1>3, <1>a DEF TaskConfigure, Goto, InsertSettings
<1>4. CASE TaskRefuse(t) \/ TaskConclude(t)
  <2>1. tmeeting[t] \in Meeting
    BY <1>0, <1>4 DEF TaskRefuse, TaskConclude, Goto
  <2>2. PICK p \in {"refusing", "concluding"}, st \in Outcome, lg \in {"same", "own"} :
            Goto(t, "streaming", p, Changes(tmeeting[t], st, lg))
    BY <1>4 DEF TaskRefuse, TaskConclude
  <2>3. Changes(tmeeting[t], st, lg) \in Dirty
    BY <2>1, ChangesAre
  <2>4. QED
    BY <1>4, <2>1, <2>2, <2>3 DEF TaskRefuse, TaskConclude, Goto
<1>5. CASE TaskFinish(t)
  BY <1>0, <1>5, <1>a DEF TaskFinish, Goto, Commit
<1>6. CASE TaskCancelled(t)
  <2>1. tmeeting[t] \in Meeting
    BY <1>0, <1>6 DEF TaskCancelled
  <2>2. PICK d \in Termination(tmeeting[t]) : Goto(t, "cancelling", "terminating", d)
    BY <1>6 DEF TaskCancelled
  <2>3. d \in Dirty
    BY <2>1, TerminationIs
  <2>4. QED
    BY <1>6, <2>1, <2>2, <2>3 DEF TaskCancelled, Goto
<1>7. CASE TaskSettings(t)
  <2>1. [Clean EXCEPT !.log = tdirty[t].log] \in Dirty
    OBVIOUS
  <2>2. QED
    BY <1>0, <1>7, <2>1 DEF TaskSettings, Goto, InsertSettings
<1>8. CASE TaskRejectStatus(t) \/ TaskReleased(t) \/ TaskUnwind(t)
  BY <1>0, <1>8 DEF TaskRejectStatus, TaskReleased, TaskUnwind
<1>9. CASE TaskRefused(t) \/ TaskTerminates(t)
  BY <1>0, <1>9 DEF TaskRefused, TaskTerminates, Commit
<1>10. CASE TaskDies(t)
  BY <1>0, <1>10 DEF TaskDies
<1>11. QED
  BY <1>1, <1>2, <1>3, <1>4, <1>5, <1>6, <1>7, <1>8, <1>9, <1>10 DEF TaskStep

\* The status and the transcript a task's step leaves its row with.
LEMMA TaskRow ==
    ASSUME TypeOK, Ownership, Sessions, NEW t \in Task, TaskStep(t)
    PROVE  \E st \in Status, lg \in Task \union {None} :
              /\ TaskWrites(t, st, lg)
              /\ \/ lg = log[tmeeting[t]]
                 \/ tpc[t] = "concluding" /\ lg = t
                 \/ tpc[t] = "terminating" /\ lg = None
              /\ tpc[t] = "concluding" /\ st # status[tmeeting[t]] => lg = t
              /\ \/ st = status[tmeeting[t]]
                    /\ (tdirty[t].status = "same" \/ lg = log[tmeeting[t]])
                 \/ /\ tpc[t] \in {"configuring", "refusing", "concluding", "terminating"}
                    /\ st = tdirty[t].status /\ st # "same"
<1> USE DEF TypeOK, TaskWrites
<1>0. tmeeting[t] \in Meeting
  BY TaskMoves
<1>1. CASE UNCHANGED <<status, log>>
  <2>1. TaskWrites(t, status[tmeeting[t]], log[tmeeting[t]])
    BY <1>0, <1>1
  <2>2. QED
    BY <1>0, <2>1
<1>2. CASE /\ tpc[t] \in {"refusing", "concluding", "terminating"}
           /\ Commit(tmeeting[t], tdirty[t], t)
  <2> DEFINE d == tdirty[t]
             st == IF d.status = "same" THEN status[tmeeting[t]] ELSE d.status
             lg == IF d.log = "same" THEN log[tmeeting[t]] ELSE IF d.log = "own" THEN t ELSE None
  <2>1. d \in Dirty /\ Flush(tmeeting[t], d, t)
    BY <1>2 DEF Commit
  <2>2. TaskWrites(t, st, lg)
    BY <1>0, <2>1, FlushWrites
  <2>3. st \in Status /\ lg \in Task \union {None}
    BY <1>0, <2>1
  <2>4. /\ d.log = "same" \/ (tpc[t] = "concluding" /\ d.log = "own")
                          \/ (tpc[t] = "terminating" /\ d.log = "purged")
        /\ tpc[t] = "concluding" /\ d.status # "same" => d.log = "own"
    BY <1>2 DEF Sessions
  <2>5. QED
    BY <1>2, <2>2, <2>3, <2>4
<1>3. CASE /\ tpc[t] \in {"configuring", "terminating"}
           /\ InsertSettings(tmeeting[t], tdirty[t])
  <2> DEFINE d == tdirty[t]
             st == IF d.status = "same" THEN status[tmeeting[t]] ELSE d.status
  <2>1. d \in Dirty
    BY <1>3
  <2>2. TaskWrites(t, st, log[tmeeting[t]])
    <3>1. /\ status' = [status EXCEPT ![tmeeting[t]] = st] /\ log' = log
          /\ d.status # "same" => Exists(tmeeting[t])
      BY <1>0, <1>3, <2>1, InsertWrites
    <3>2. log' = [log EXCEPT ![tmeeting[t]] = log[tmeeting[t]]]
      BY <3>1
    <3>3. QED
      BY <3>1, <3>2
  <2>3. st \in Status
    BY <1>0, <2>1
  <2>4. st = status[tmeeting[t]] \/ (st = d.status /\ st # "same")
    OBVIOUS
  <2>5. log[tmeeting[t]] \in Task \union {None} /\ tpc[t] # "concluding"
    BY <1>0, <1>3
  <2> HIDE DEF st
  <2>6. QED
    BY <1>3, <2>2, <2>3, <2>4, <2>5
<1>4. CASE TaskConfigure(t) \/ TaskRefused(t) \/ TaskFinish(t) \/ TaskSettings(t)
             \/ TaskTerminates(t)
  BY <1>1, <1>2, <1>3, <1>4 DEF TaskConfigure, TaskRefused, TaskFinish, TaskSettings,
       TaskTerminates, Goto
<1>5. CASE ~ (TaskConfigure(t) \/ TaskRefused(t) \/ TaskFinish(t) \/ TaskSettings(t)
             \/ TaskTerminates(t))
  BY <1>1, <1>5 DEF TaskStep, TaskEnter, TaskAccept, TaskRejectStatus, TaskRefuse,
       TaskConclude, TaskReleased, TaskDies, TaskCancelled, TaskUnwind
<1>6. QED
  BY <1>4, <1>5

\* Every step keeps the types.
LEMMA TypeInductive ==
    ASSUME TypeOK, Ownership, Sessions, [Next]_vars
    PROVE  TypeOK'
<1> USE DEF TypeOK
<1>0. \A s \in Socket : spc[s] # "unopened" => smeeting[s] \in Meeting
  BY DEF Ownership
<1>a. Clean \in Dirty
  OBVIOUS
<1>1. ASSUME NEW m \in Meeting, CreateCheck(m) \/ CreateMeeting(m) \/ DeleteMeeting(m)
      PROVE TypeOK'
  <2>1. CASE CreateCheck(m)
    BY <2>1 DEF CreateCheck
  <2>2. CASE CreateMeeting(m)
    BY <2>2 DEF CreateMeeting
  <2>3. CASE DeleteMeeting(m)
    BY <2>3 DEF DeleteMeeting
  <2>4. QED
    BY <1>1, <2>1, <2>2, <2>3
<1>2. ASSUME NEW s \in Socket, NEW m \in Meeting, Connect(s, m) PROVE TypeOK'
  BY <1>2 DEF Connect
<1>3. ASSUME NEW s \in Socket, ClientDrops(s) \/ StartCheck(s) PROVE TypeOK'
  BY <1>3 DEF ClientDrops, StartCheck, HandlerGoto
<1>4. ASSUME NEW s \in Socket, StartRead(s) \/ StopRead(s) PROVE TypeOK'
  <2>1. smeeting[s] \in Meeting
    BY <1>0, <1>4 DEF StartRead, StopRead, HandlerGoto
  <2>2. PICK d \in Dirty : sdirty' = [sdirty EXCEPT ![s] = d]
    BY <1>4, <2>1, ChangesAre, TerminationIs DEF StartRead, StopRead
  <2>3. QED
    BY <1>4, <2>2 DEF StartRead, StopRead, HandlerGoto
<1>5. ASSUME NEW s \in Socket, NEW t \in Task, StartCommit(s, t) PROVE TypeOK'
  <2>1. smeeting[s] \in Meeting
    BY <1>0, <1>5 DEF StartCommit, HandlerGoto
  <2>2. /\ status' \in [Meeting -> Status] /\ log' \in [Meeting -> Task \union {None}]
        /\ UNCHANGED settingsRow
    BY <1>5, <2>1, FlushWrites DEF StartCommit, Commit
  <2>3. QED
    BY <1>5, <1>a, <2>1, <2>2 DEF StartCommit, HandlerGoto
<1>6. ASSUME NEW s \in Socket, StopCommand(s) \/ Disconnect(s) PROVE TypeOK'
  <2>1. CancelOwn(s)
    BY <1>6 DEF StopCommand, Disconnect
  <2>2. tpc' \in [Task -> Live \union Over \union {"unborn"}]
    <3>1. \A p \in Live \union Over \union {"unborn"} :
             Cancelled(p) \in Live \union Over \union {"unborn"}
      BY DEF Cancelled
    <3>2. QED
      BY <2>1, <3>1 DEF CancelOwn
  <2>3. tdirty' \in [Task -> Dirty]
    BY <1>a, <2>1 DEF CancelOwn
  <2>4. /\ UNCHANGED <<row, registry, smeeting, connected, own, sdirty, tmeeting, tsocket, proc>>
        /\ spc' = [spc EXCEPT ![s] = "stopping"] \/ spc' = [spc EXCEPT ![s] = "gone"]
    BY <1>6 DEF StopCommand, Disconnect, HandlerGoto
  <2>5. QED
    BY <2>2, <2>3, <2>4
<1>7. ASSUME NEW s \in Socket, StopSettings(s) PROVE TypeOK'
  <2>1. smeeting[s] \in Meeting
    BY <1>0, <1>7 DEF StopSettings
  <2>2. status' \in [Meeting -> Status] /\ log' = log /\ settingsRow' = TRUE
    BY <1>7, <2>1, InsertWrites DEF StopSettings
  <2>3. sdirty' \in [Socket -> Dirty]
    BY <1>7 DEF StopSettings
  <2>4. QED
    BY <1>7, <2>2, <2>3 DEF StopSettings
<1>8. ASSUME NEW s \in Socket, StopCommit(s) PROVE TypeOK'
  <2>1. smeeting[s] \in Meeting
    BY <1>0, <1>8 DEF StopCommit, HandlerGoto
  <2>2. /\ status' \in [Meeting -> Status] /\ log' \in [Meeting -> Task \union {None}]
        /\ UNCHANGED settingsRow
    BY <1>8, <2>1, FlushWrites DEF StopCommit, Commit
  <2>3. QED
    BY <1>8, <1>a, <2>2 DEF StopCommit, HandlerGoto
<1>9. ASSUME NEW s \in Socket, HandlerDies(s) PROVE TypeOK'
  BY <1>9, <1>a DEF HandlerDies
<1>10. ASSUME NEW t \in Task, TaskStep(t) PROVE TypeOK'
  <2>1. /\ tmeeting[t] \in Meeting /\ settingsRow' \in BOOLEAN
        /\ UNCHANGED <<socks, tmeeting, tsocket, proc>>
        /\ TaskGoesOn(t) \/ TaskLeaves(t)
    BY <1>10, TaskMoves
  <2>2. /\ status' \in [Meeting -> Status] /\ log' \in [Meeting -> Task \union {None}]
    <3>1. PICK st \in Status, lg \in Task \union {None} : TaskWrites(t, st, lg)
      BY <1>10, TaskRow
    <3>2. QED
      BY <2>1, <3>1 DEF TaskWrites
  <2>3. /\ tpc' \in [Task -> Live \union Over \union {"unborn"}]
        /\ tdirty' \in [Task -> Dirty]
        /\ registry' \in [Meeting -> Task \union {None}]
    <3>1. CASE TaskGoesOn(t)
      BY <3>1 DEF TaskGoesOn
    <3>2. CASE TaskLeaves(t)
      <4>1. PICK how \in {"done", "died"} : Leave(t, how)
        BY <3>2 DEF TaskLeaves
      <4>2. /\ tpc' \in [Task -> Live \union Over \union {"unborn"}]
            /\ tdirty' \in [Task -> Dirty]
        BY <1>a, <4>1 DEF Leave
      <4>3. registry' \in [Meeting -> Task \union {None}]
        BY <4>1 DEF Leave
      <4>4. QED
        BY <4>2, <4>3
    <3>3. QED
      BY <2>1, <3>1, <3>2
  <2>4. QED
    BY <2>1, <2>2, <2>3
<1>11. CASE Restart
  <2>1. restarts' \in 0 .. MaxRestarts
    BY <1>11 DEF Restart
  <2>2. status' \in [Meeting -> Status] /\ reaped' \in BOOLEAN
    <3>1. CASE Reap
      BY <3>1 DEF Reap
    <3>2. CASE UNCHANGED status /\ reaped' = FALSE
      BY <3>2
    <3>3. QED
      BY <1>11, <3>1, <3>2 DEF Restart
  <2>3. sdirty' \in [Socket -> Dirty] /\ tdirty' \in [Task -> Dirty]
    BY <1>11, <1>a DEF Restart
  <2>4. QED
    BY <1>11, <2>1, <2>2, <2>3 DEF Restart
<1>12. CASE UNCHANGED vars
  BY <1>12
<1>13. QED
  BY <1>1, <1>2, <1>3, <1>4, <1>5, <1>6, <1>7, <1>8, <1>9, <1>10, <1>11, <1>12
     DEF Next, Rest, HandlerStep, StopStep

\* What each step of a handler leaves of the rest: it writes at most its
\* meeting's row, creates at most one task, and cancels at most its own.
HandlerWrites(s, st, lg) ==
    /\ status' = [status EXCEPT ![smeeting[s]] = st]
    /\ log' = [log EXCEPT ![smeeting[s]] = lg]
    /\ st # status[smeeting[s]] \/ lg # log[smeeting[s]] => Exists(smeeting[s])

LEMMA HandlerRow ==
    ASSUME TypeOK, Ownership, Sessions, NEW s \in Socket, HandlerStep(s)
    PROVE  /\ smeeting[s] \in Meeting
           /\ \E st \in Status, lg \in {log[smeeting[s]], None} :
                 /\ HandlerWrites(s, st, lg)
                 /\ \/ st = status[smeeting[s]]
                       /\ (sdirty[s].status = "same" \/ lg = log[smeeting[s]])
                    \/ spc[s] = "queueing" /\ st = "queued"
                    \/ spc[s] = "terminating" /\ st = "terminated"
                 /\ lg = log[smeeting[s]] \/ spc[s] = "terminating"
<1> USE DEF TypeOK, HandlerWrites
<1>0. smeeting[s] \in Meeting
  <2>1. spc[s] # "unopened"
    BY DEF HandlerStep, StopStep, StartCheck, StartRead, StartCommit, StopCommand, StopRead,
         StopSettings, StopCommit, HandlerDies, Disconnect, HandlerGoto
  <2>2. QED
    BY <2>1 DEF Ownership
<1> DEFINE m == smeeting[s]
           d == sdirty[s]
           wst == IF d.status = "same" THEN status[m] ELSE d.status
<1>1. CASE UNCHANGED <<status, log>>
  <2>1. HandlerWrites(s, status[m], log[m])
    BY <1>0, <1>1
  <2>2. QED
    BY <1>0, <2>1
<1>2. CASE spc[s] \in {"queueing", "terminating"} /\ Commit(m, d, None)
  <2>1. d \in Dirty /\ Flush(m, d, None)
    BY <1>2 DEF Commit
  <2>2. /\ d.log \in {"same", "purged"}
        /\ spc[s] = "queueing" => d.log = "same"
        /\ \/ d.status = "same"
           \/ d.status = "queued" /\ spc[s] = "queueing"
           \/ d.status = "terminated" /\ spc[s] = "terminating"
    <3>1. CASE spc[s] = "queueing"
      <4>1. sdirty[s].status \in {"same", "queued"} /\ sdirty[s].log = "same"
        BY <3>1 DEF Sessions
      <4>2. QED
        BY <3>1, <4>1
    <3>2. CASE spc[s] = "terminating"
      <4>1. sdirty[s].status \in {"same", "terminated"} /\ sdirty[s].log \in {"same", "purged"}
        BY <3>2 DEF Sessions
      <4>2. QED
        BY <3>2, <4>1
    <3>3. QED
      BY <1>2, <3>1, <3>2
  <2>3. HandlerWrites(s, wst, IF d.log = "same" THEN log[m] ELSE None)
    BY <1>0, <2>1, <2>2, FlushWrites
  <2>4. wst \in Status
    BY <1>0, <2>1, <2>2
  <2>5. QED
    BY <1>0, <1>2, <2>2, <2>3, <2>4
<1>3. CASE spc[s] = "terminating" /\ InsertSettings(m, d)
  <2>1. d \in Dirty
    OBVIOUS
  <2>2. d.status \in {"same", "terminated"}
    BY <1>3 DEF Sessions
  <2>3. HandlerWrites(s, wst, log[m])
    <3>1. /\ status' = [status EXCEPT ![m] = wst] /\ log' = log
          /\ d.status # "same" => Exists(m)
      BY <1>0, <1>3, <2>1, InsertWrites
    <3>2. log' = [log EXCEPT ![m] = log[m]]
      BY <3>1
    <3>3. QED
      BY <3>1, <3>2
  <2>4. wst \in Status
    BY <1>0, <2>2
  <2>5. QED
    BY <1>0, <1>3, <2>2, <2>3, <2>4
<1>4. QED
  <2>1. CASE UNCHANGED <<status, log>>
    BY <1>1, <2>1
  <2>2. CASE ~ UNCHANGED <<status, log>>
    BY <1>2, <1>3, <2>2 DEF HandlerStep, StopStep, StartCheck, StartRead, StartCommit, StopCommand,
         StopRead, StopSettings, StopCommit, HandlerDies, Disconnect, HandlerGoto
  <2>3. QED
    BY <2>1, <2>2

\* No step of a handler or a task makes a row, or a draft of one.
LEMMA RowKept ==
    ASSUME TypeOK, Ownership, Sessions,
           (\E s \in Socket : HandlerStep(s)) \/ (\E t \in Task : TaskStep(t))
    PROVE  \A m \in Meeting :
              /\ status[m] = "none" <=> status'[m] = "none"
              /\ status[m] = "deleted" => status'[m] = "deleted"
              /\ status'[m] = "draft" => status[m] = "draft"
<1> USE DEF TypeOK
<1>1. ASSUME NEW k \in Meeting, NEW st \in Status, status' = [status EXCEPT ![k] = st],
             st = status[k] \/ st \in {"queued", "running", "terminated"} \union Outcome,
             st # status[k] => Exists(k)
      PROVE  \A m \in Meeting :
                /\ status[m] = "none" <=> status'[m] = "none"
                /\ status[m] = "deleted" => status'[m] = "deleted"
                /\ status'[m] = "draft" => status[m] = "draft"
  BY <1>1
<1>2. ASSUME NEW s \in Socket, HandlerStep(s)
      PROVE  \E k \in Meeting, st \in Status :
                /\ status' = [status EXCEPT ![k] = st]
                /\ st = status[k] \/ st \in {"queued", "running", "terminated"} \union Outcome
                /\ st # status[k] => Exists(k)
  BY <1>2, HandlerRow DEF HandlerWrites
<1>3. ASSUME NEW t \in Task, TaskStep(t)
      PROVE  \E k \in Meeting, st \in Status :
                /\ status' = [status EXCEPT ![k] = st]
                /\ st = status[k] \/ st \in {"queued", "running", "terminated"} \union Outcome
                /\ st # status[k] => Exists(k)
  <2>1. tmeeting[t] \in Meeting
    BY <1>3, TaskMoves
  <2>2. PICK st \in Status, lg \in Task \union {None} :
           /\ TaskWrites(t, st, lg)
           /\ st = status[tmeeting[t]] \/ (st = tdirty[t].status /\ st # "same")
    BY <1>3, TaskRow
  <2>3. st = status[tmeeting[t]] \/ st \in {"queued", "running", "terminated"} \union Outcome
    BY <2>2
  <2>4. QED
    BY <2>1, <2>2, <2>3 DEF TaskWrites
<1>4. QED
  BY <1>1, <1>2, <1>3

\* Sockets and tasks keep the meeting and the socket they were given.
LEMMA OwnershipInductive ==
    ASSUME TypeOK, Ownership, Sessions, [Next]_vars
    PROVE  Ownership'
<1> USE DEF TypeOK, Ownership
<1>1. ASSUME NEW m \in Meeting, CreateCheck(m) \/ CreateMeeting(m) \/ DeleteMeeting(m)
      PROVE  Ownership'
  BY <1>1 DEF CreateCheck, CreateMeeting, DeleteMeeting
<1>2. ASSUME NEW s \in Socket, NEW m \in Meeting, Connect(s, m) PROVE Ownership'
  BY <1>2 DEF Connect
<1>3. ASSUME NEW s \in Socket, ClientDrops(s) PROVE Ownership'
  BY <1>3 DEF ClientDrops
<1>4. ASSUME NEW s \in Socket, HandlerStep(s) PROVE Ownership'
  <2>1. \A m \in Meeting :
           /\ status[m] = "none" <=> status'[m] = "none"
           /\ status'[m] = "draft" => status[m] = "draft"
    BY <1>4, RowKept
  <2>2. UNCHANGED <<creating, smeeting>>
    BY <1>4 DEF HandlerStep, StopStep, StartCheck, StartRead, StartCommit, StopCommand,
         StopRead, StopSettings, StopCommit, HandlerDies, Disconnect, HandlerGoto
  <2>3. CASE \E t \in Task : StartCommit(s, t)
    <3>1. PICK t \in Task : StartCommit(s, t)
      BY <2>3
    <3>2. /\ spc[s] = "queueing" /\ spc' = [spc EXCEPT ![s] = "receiving"]
          /\ tpc[t] = "unborn" /\ tpc' = [tpc EXCEPT ![t] = "created"]
          /\ tmeeting' = [tmeeting EXCEPT ![t] = smeeting[s]]
          /\ tsocket' = [tsocket EXCEPT ![t] = s] /\ own' = [own EXCEPT ![s] = t]
      BY <3>1 DEF StartCommit, HandlerGoto
    <3>3. smeeting[s] \in Meeting /\ status'[smeeting[s]] \notin {"none", "draft"}
      <4>1. smeeting[s] \in Meeting /\ status[smeeting[s]] # "none"
        BY <3>2
      <4>2. sdirty[s].status = "same" => status[smeeting[s]] # "draft"
        BY <3>2 DEF Sessions
      <4>3. sdirty[s] \in Dirty /\ Flush(smeeting[s], sdirty[s], None)
        BY <3>1 DEF StartCommit, Commit
      <4>4. sdirty[s].status # "same" => status'[smeeting[s]] = sdirty[s].status
        BY <4>1, <4>3, FlushWrites
      <4>5. QED
        BY <2>1, <4>1, <4>2, <4>3, <4>4
    <3>4. QED
      BY <2>1, <2>2, <3>2, <3>3
  <2>4. CASE ~ \E t \in Task : StartCommit(s, t)
    <3>1. UNCHANGED <<own, tmeeting, tsocket>>
      BY <1>4, <2>4 DEF HandlerStep, StopStep, StartCheck, StartRead, StopCommand,
           StopRead, StopSettings, StopCommit, HandlerDies, Disconnect, HandlerGoto
    <3>2. \A t \in Task : tpc[t] = "unborn" <=> tpc'[t] = "unborn"
      <4>1. UNCHANGED tpc \/ CancelOwn(s)
        BY <1>4, <2>4 DEF HandlerStep, StopStep, StartCheck, StartRead, StopCommand,
             StopRead, StopSettings, StopCommit, HandlerDies, Disconnect
      <4>2. QED
        BY <4>1 DEF CancelOwn, Cancelled
    <3>3. \A u \in Socket : spc[u] = "unopened" <=> spc'[u] = "unopened"
      BY <1>4, <2>4 DEF HandlerStep, StopStep, StartCheck, StartRead, StopCommand,
           StopRead, StopSettings, StopCommit, HandlerDies, Disconnect, HandlerGoto
    <3>4. QED
      BY <2>1, <2>2, <3>1, <3>2, <3>3
  <2>5. QED
    BY <2>3, <2>4
<1>5. ASSUME NEW t \in Task, TaskStep(t) PROVE Ownership'
  <2>1. \A m \in Meeting :
           /\ status[m] = "none" <=> status'[m] = "none"
           /\ status'[m] = "draft" => status[m] = "draft"
    BY <1>5, RowKept
  <2>2. UNCHANGED <<socks, tmeeting, tsocket, proc>>
    BY <1>5, TaskMoves
  <2>3. \A u \in Task : tpc[u] = "unborn" <=> tpc'[u] = "unborn"
    <3>1. PICK p \in Live \union Over : tpc[t] \in Live /\ tpc' = [tpc EXCEPT ![t] = p]
      BY <1>5, TaskMoves DEF TaskGoesOn, TaskLeaves, Leave
    <3>2. QED
      BY <3>1
  <2>4. QED
    BY <2>1, <2>2, <2>3
<1>6. CASE Restart
  <2>1. \A m \in Meeting :
           /\ status[m] = "none" => status'[m] = "none"
           /\ status[m] # "none" => status'[m] # "none"
           /\ status[m] \notin {"none", "draft"} => status'[m] \notin {"none", "draft"}
    BY <1>6 DEF Restart, Reap
  <2>2. /\ creating' = {} /\ UNCHANGED <<smeeting, own, tmeeting, tsocket>>
        /\ \A s \in Socket : spc[s] = "unopened" <=> spc'[s] = "unopened"
        /\ \A t \in Task : tpc[t] = "unborn" <=> tpc'[t] = "unborn"
    BY <1>6 DEF Restart
  <2>3. QED
    BY <2>1, <2>2
<1>7. CASE UNCHANGED vars
  BY <1>7
<1>8. QED
  BY <1>1, <1>2, <1>3, <1>4, <1>5, <1>6, <1>7 DEF Next, Rest

\* A session has to write what its read left it, and writes it before its
\* coroutine goes on.
LEMMA SessionsInductive ==
    ASSUME TypeOK, Ownership, Sessions, [Next]_vars
    PROVE  Sessions'
<1> USE DEF TypeOK
<1>0. \A s \in Socket : spc[s] # "unopened" => smeeting[s] \in Meeting /\ status[smeeting[s]] # "none"
  BY DEF Ownership
<1>1. ASSUME NEW m \in Meeting, CreateCheck(m) \/ CreateMeeting(m) \/ DeleteMeeting(m)
      PROVE  Sessions'
  <2>1. UNCHANGED <<tpc, tdirty, smeeting, spc, sdirty>>
    BY <1>1 DEF CreateCheck, CreateMeeting, DeleteMeeting
  <2>2. \A n \in Meeting : status[n] \notin {"none", "draft"} => status'[n] # "draft"
    BY <1>1 DEF CreateCheck, CreateMeeting, DeleteMeeting, Ownership
  <2>3. QED
    BY <1>0, <2>1, <2>2 DEF Sessions
<1>2. ASSUME NEW s \in Socket, (\E m \in Meeting : Connect(s, m)) \/ ClientDrops(s)
      PROVE  Sessions'
  BY <1>2 DEF Connect, ClientDrops, Sessions
<1>3. ASSUME NEW s \in Socket, HandlerStep(s) PROVE Sessions'
  <2>0. \A m \in Meeting : status'[m] = "draft" => status[m] = "draft"
    BY <1>3, RowKept
  <2>1. CASE StartCheck(s) \/ StopCommit(s) \/ HandlerDies(s) \/ StopCommand(s) \/ Disconnect(s)
             \/ \E t \in Task : StartCommit(s, t)
    <3>1. /\ UNCHANGED smeeting
          /\ spc' = [spc EXCEPT ![s] = spc'[s]] /\ spc'[s] \notin {"queueing", "terminating"}
          /\ \A u \in Socket : u # s => sdirty'[u] = sdirty[u]
      BY <2>1 DEF StartCheck, StopCommit, HandlerDies, StopCommand, Disconnect, StartCommit, HandlerGoto
    <3>2. \A t \in Task : tpc'[t] \in {"configuring", "refusing", "concluding", "terminating"}
             => tpc'[t] = tpc[t] /\ tdirty'[t] = tdirty[t]
      <4>1. UNCHANGED <<tpc, tdirty>> \/ CancelOwn(s)
            \/ \E t \in Task : tpc' = [tpc EXCEPT ![t] = "created"] /\ UNCHANGED tdirty
        BY <2>1 DEF StartCheck, StopCommit, HandlerDies, StopCommand, Disconnect, StartCommit
      <4>2. CASE CancelOwn(s)
        BY <4>2 DEF CancelOwn, Cancelled
      <4>3. CASE ~ CancelOwn(s)
        BY <4>1, <4>3
      <4>4. QED
        BY <4>2, <4>3
    <3>3. QED
      BY <1>0, <2>0, <3>1, <3>2 DEF Sessions
  <2>2. CASE StartRead(s)
    <3>1. /\ smeeting[s] \in Meeting /\ status[smeeting[s]] # "none"
          /\ spc' = [spc EXCEPT ![s] = "queueing"] /\ UNCHANGED <<status, smeeting, tpc, tdirty>>
          /\ sdirty' = [sdirty EXCEPT ![s] = Changes(smeeting[s], "queued", "same")]
      BY <1>0, <2>2 DEF StartRead, HandlerGoto
    <3>2. /\ Changes(smeeting[s], "queued", "same").status =
               IF Exists(smeeting[s]) /\ status[smeeting[s]] # "queued" THEN "queued" ELSE "same"
          /\ Changes(smeeting[s], "queued", "same").log = "same"
      BY DEF Changes, Assigned
    <3>3. QED
      BY <3>1, <3>2 DEF Sessions
  <2>3. CASE StopRead(s)
    <3>1. /\ smeeting[s] \in Meeting
          /\ spc' = [spc EXCEPT ![s] = "terminating"] /\ UNCHANGED <<status, smeeting, tpc, tdirty>>
      BY <1>0, <2>3 DEF StopRead, HandlerGoto
    <3>2. PICK d \in Termination(smeeting[s]) : sdirty' = [sdirty EXCEPT ![s] = d]
      BY <2>3 DEF StopRead
    <3>3. d.status \in {"same", "terminated"} /\ d.log \in {"same", "purged"}
      BY <3>1, TerminationIs
    <3>4. QED
      BY <3>1, <3>2, <3>3 DEF Sessions
  <2>4. CASE StopSettings(s)
    <3>1. /\ UNCHANGED <<spc, smeeting, tpc, tdirty>> /\ spc[s] = "terminating"
          /\ sdirty' = [sdirty EXCEPT ![s] = [Clean EXCEPT !.log = sdirty[s].log]]
      BY <2>4 DEF StopSettings
    <3>2. [Clean EXCEPT !.log = sdirty[s].log].status = "same"
          /\ [Clean EXCEPT !.log = sdirty[s].log].log = sdirty[s].log
      OBVIOUS
    <3>3. QED
      BY <1>0, <2>0, <3>1, <3>2 DEF Sessions
  <2>5. QED
    BY <1>3, <2>1, <2>2, <2>3, <2>4 DEF HandlerStep, StopStep
<1>4. ASSUME NEW t \in Task, TaskStep(t) PROVE Sessions'
  <2>0. \A m \in Meeting : status'[m] = "draft" => status[m] = "draft"
    BY <1>4, RowKept
  <2>1. UNCHANGED <<spc, smeeting, sdirty>> /\ tmeeting[t] \in Meeting
    BY <1>4, TaskMoves
  <2>2. \A u \in Task : u # t => tpc'[u] = tpc[u] /\ tdirty'[u] = tdirty[u]
    BY <1>4, TaskMoves DEF TaskGoesOn, TaskLeaves, Leave
  <2> DEFINE Own(p, d) ==
        /\ p = "configuring" => d.status \in {"same", "running"} /\ d.log = "same"
        /\ p = "refusing" => d.status \in {"same", "failed"} /\ d.log = "same" /\ ~ d.settings
        /\ p = "concluding" =>
              /\ d.status \in {"same"} \union Outcome /\ d.log \in {"same", "own"}
              /\ d.status # "same" => d.log = "own"
              /\ ~ d.settings
        /\ p = "terminating" => d.status \in {"same", "terminated"} /\ d.log \in {"same", "purged"}
  <2>3. Own(tpc'[t], tdirty'[t])
    <3>1. CASE TaskAccept(t)
      <4>1. /\ tpc'[t] = "configuring"
            /\ tdirty'[t] = [Changes(tmeeting[t], "running", "same") EXCEPT !.settings = ~settingsRow]
        BY <3>1 DEF TaskAccept, Goto
      <4>2. Changes(tmeeting[t], "running", "same") \in Dirty /\ (~settingsRow) \in BOOLEAN
        BY <2>1, ChangesAre
      <4>3. /\ Changes(tmeeting[t], "running", "same").status \in {"same", "running"}
            /\ Changes(tmeeting[t], "running", "same").log = "same"
        BY DEF Changes, Assigned
      <4>4. QED
        BY <4>1, <4>2, <4>3, WithSettings
    <3>2. CASE TaskRefuse(t)
      <4>1. tpc'[t] = "refusing" /\ tdirty'[t] = Changes(tmeeting[t], "failed", "same")
        BY <3>2 DEF TaskRefuse, Goto
      <4>2. QED
        BY <4>1 DEF Changes, Assigned
    <3>3. CASE TaskConclude(t)
      <4>1. PICK o \in Outcome :
               tpc'[t] = "concluding" /\ tdirty'[t] = Changes(tmeeting[t], o, "own")
        BY <3>3 DEF TaskConclude, Goto
      <4>2. QED
        BY <4>1 DEF Changes, Assigned
    <3>4. CASE TaskCancelled(t)
      <4>1. PICK d \in Termination(tmeeting[t]) : tpc'[t] = "terminating" /\ tdirty'[t] = d
        BY <3>4 DEF TaskCancelled, Goto
      <4>2. QED
        BY <2>1, <4>1, TerminationIs
    <3>5. CASE TaskSettings(t)
      <4>1. /\ tpc[t] = "terminating" /\ tpc'[t] = "terminating"
            /\ tdirty'[t] = [Clean EXCEPT !.log = tdirty[t].log]
        BY <3>5 DEF TaskSettings, Goto
      <4>2. tdirty[t].log \in {"same", "purged"}
        BY <4>1 DEF Sessions
      <4>3. QED
        BY <4>1, <4>2
    <3>6. CASE TaskEnter(t) \/ TaskConfigure(t) \/ TaskFinish(t)
      BY <3>6 DEF TaskEnter, TaskConfigure, TaskFinish, Goto
    <3>7. CASE \/ TaskRejectStatus(t) \/ TaskRefused(t) \/ TaskReleased(t) \/ TaskDies(t)
               \/ TaskTerminates(t) \/ TaskUnwind(t)
      BY <3>7 DEF TaskRejectStatus, TaskRefused, TaskReleased, TaskDies, TaskTerminates,
           TaskUnwind, Leave
    <3>8. QED
      BY <1>4, <3>1, <3>2, <3>3, <3>4, <3>5, <3>6, <3>7 DEF TaskStep
  <2>4. \A u \in Task : Own(tpc'[u], tdirty'[u])
    <3>1. \A u \in Task : Own(tpc[u], tdirty[u])
      BY DEF Sessions
    <3>2. QED
      BY <2>2, <2>3, <3>1
  <2>5. \A s \in Socket : spc[s] = "queueing" /\ sdirty[s].status = "same"
           => status'[smeeting[s]] # "draft"
    BY <1>0, <2>0 DEF Sessions
  <2>6. QED
    BY <2>1, <2>4, <2>5 DEF Sessions
<1>5. CASE Restart
  <2>1. /\ \A s \in Socket : spc'[s] \notin {"queueing", "terminating"}
        /\ \A t \in Task : tpc'[t] \notin Live
    BY <1>5 DEF Restart
  <2>2. QED
    BY <2>1 DEF Sessions
<1>6. CASE UNCHANGED vars
  BY <1>6 DEF Sessions
<1>7. QED
  BY <1>1, <1>2, <1>3, <1>4, <1>5, <1>6 DEF Next, Rest

\* No entry of the registry outlives its task: whichever way a task leaves,
\* the entry of its meeting leaves with it.
LEMMA RegistryInductive ==
    ASSUME TypeOK, Ownership, RegistryAccurate, [Next]_vars
    PROVE  RegistryAccurate'
<1> USE DEF TypeOK, RegistryAccurate
<1>1. ASSUME UNCHANGED <<registry, tpc, tmeeting>> PROVE RegistryAccurate'
  BY <1>1
<1>2. ASSUME NEW m \in Meeting, CreateCheck(m) \/ CreateMeeting(m) \/ DeleteMeeting(m)
      PROVE  RegistryAccurate'
  BY <1>1, <1>2 DEF CreateCheck, CreateMeeting, DeleteMeeting
<1>3. ASSUME NEW s \in Socket,
             \/ \E m \in Meeting : Connect(s, m)
             \/ ClientDrops(s) \/ StartCheck(s) \/ StartRead(s) \/ StopStep(s)
      PROVE  RegistryAccurate'
  BY <1>1, <1>3 DEF Connect, ClientDrops, StartCheck, StartRead, StopStep, StopRead,
       StopSettings, StopCommit, HandlerDies
<1>4. ASSUME NEW s \in Socket, NEW t \in Task, StartCommit(s, t) PROVE RegistryAccurate'
  <2>1. smeeting[s] \in Meeting
    BY <1>4 DEF StartCommit, HandlerGoto, Ownership
  <2>2. QED
    BY <1>4, <2>1 DEF StartCommit
<1>5. ASSUME NEW s \in Socket, StopCommand(s) \/ Disconnect(s) PROVE RegistryAccurate'
  BY <1>5 DEF StopCommand, Disconnect, CancelOwn, Cancelled
<1>6. ASSUME NEW t \in Task, TaskStep(t) PROVE RegistryAccurate'
  <2>1. tmeeting[t] \in Meeting /\ UNCHANGED tmeeting
    BY <1>6, TaskMoves
  <2>2. CASE TaskGoesOn(t)
    BY <2>1, <2>2 DEF TaskGoesOn
  <2>3. CASE TaskLeaves(t)
    BY <2>1, <2>3 DEF TaskLeaves, Leave
  <2>4. QED
    BY <1>6, <2>2, <2>3, TaskMoves
<1>7. CASE Restart
  BY <1>7 DEF Restart
<1>8. CASE UNCHANGED vars
  BY <1>1, <1>8
<1>9. QED
  BY <1>2, <1>3, <1>4, <1>5, <1>6, <1>7, <1>8 DEF Next, Rest, HandlerStep

\* A step that changes neither the task nor its socket's handler keeps what the
\* task explains.
LEMMA StillExplains ==
    ASSUME NEW m \in Meeting, NEW t \in Task, Explains(t, m),
           tpc'[t] = tpc[t], tdirty'[t] = tdirty[t], tmeeting' = tmeeting, tsocket' = tsocket,
           spc'[tsocket[t]] = spc[tsocket[t]], sdirty'[tsocket[t]] = sdirty[tsocket[t]]
    PROVE  \E u \in Task : Explains(u, m)'
BY DEF Explains

\* A task ceases to explain an active row only in a step that ends the row's
\* activity, whatever session that step writes through.
LEMMA ExplainedInductive ==
    ASSUME TypeOK, Ownership, Sessions, Explained, [Next]_vars
    PROVE  Explained'
<1> USE DEF TypeOK
<1> SUFFICES ASSUME NEW n \in Meeting, reaped', status'[n] \in Active
             PROVE  \E u \in Task : Explains(u, n)'
  BY DEF Explained
<1>0. \A u \in Task : tpc[u] # "unborn" =>
          /\ tsocket[u] \in Socket /\ spc[tsocket[u]] # "unopened"
          /\ tmeeting[u] = smeeting[tsocket[u]]
  BY DEF Ownership
<1>1. ASSUME NEW m \in Meeting, CreateCheck(m) \/ CreateMeeting(m) \/ DeleteMeeting(m)
      PROVE  \E u \in Task : Explains(u, n)'
  <2>1. reaped /\ status[n] \in Active /\ UNCHANGED <<tpc, tdirty, tmeeting, tsocket, spc, sdirty>>
    BY <1>1 DEF CreateCheck, CreateMeeting, DeleteMeeting
  <2>2. QED
    BY <2>1, StillExplains DEF Explained
<1>2. ASSUME NEW s \in Socket,
             ClientDrops(s) \/ StartCheck(s) \/ StartRead(s) \/ (\E m \in Meeting : Connect(s, m))
      PROVE  \E u \in Task : Explains(u, n)'
  <2>1. /\ reaped /\ status[n] \in Active /\ UNCHANGED <<tpc, tdirty, tmeeting, tsocket>>
        /\ \A u \in Socket : u # s => spc'[u] = spc[u] /\ sdirty'[u] = sdirty[u]
        /\ UNCHANGED <<spc, sdirty>> \/ spc[s] \in {"unopened", "receiving", "starting"}
    <3>1. CASE ClientDrops(s) \/ StartCheck(s)
      BY <3>1 DEF ClientDrops, StartCheck, HandlerGoto
    <3>2. CASE StartRead(s)
      BY <3>2 DEF StartRead, HandlerGoto
    <3>3. CASE \E m \in Meeting : Connect(s, m)
      BY <3>3 DEF Connect
    <3>4. QED
      BY <1>2, <3>1, <3>2, <3>3
  <2>2. PICK u \in Task : Explains(u, n)
    BY <2>1 DEF Explained
  <2>3. Explains(u, n)'
    BY <1>0, <2>1, <2>2 DEF Explains
  <2>4. QED
    BY <2>3
<1>3. ASSUME NEW s \in Socket, NEW t \in Task, StartCommit(s, t)
      PROVE  \E u \in Task : Explains(u, n)'
  <2>0. smeeting[s] \in Meeting
    BY <1>3 DEF StartCommit, HandlerGoto, Ownership
  <2>1. /\ tpc[t] = "unborn" /\ tpc' = [tpc EXCEPT ![t] = "created"]
        /\ tmeeting' = [tmeeting EXCEPT ![t] = smeeting[s]]
        /\ tsocket' = [tsocket EXCEPT ![t] = s] /\ UNCHANGED <<tdirty, reaped>>
        /\ spc[s] = "queueing"
        /\ \A u \in Socket : u # s => spc'[u] = spc[u] /\ sdirty'[u] = sdirty[u]
    BY <1>3 DEF StartCommit, HandlerGoto
  <2>2. CASE n = smeeting[s]
    BY <2>1, <2>2 DEF Explains
  <2>3. CASE n # smeeting[s]
    <3>1. reaped /\ status[n] \in Active
      <4>1. sdirty[s] \in Dirty /\ Flush(smeeting[s], sdirty[s], None)
        BY <1>3 DEF StartCommit, Commit
      <4>2. QED
        BY <2>0, <2>1, <2>3, <4>1, FlushWrites
    <3>2. PICK u \in Task : Explains(u, n)
      BY <3>1 DEF Explained
    <3>3. u # t
      BY <2>1, <3>2 DEF Explains
    <3>4. Explains(u, n)'
      BY <1>0, <2>1, <3>2, <3>3 DEF Explains
    <3>5. QED
      BY <3>4
  <2>4. QED
    BY <2>2, <2>3
<1>4. ASSUME NEW s \in Socket, StopCommand(s) \/ Disconnect(s)
      PROVE  \E u \in Task : Explains(u, n)'
  <2>0. CancelOwn(s)
    BY <1>4 DEF StopCommand, Disconnect
  <2>1. /\ reaped /\ status[n] \in Active /\ spc[s] = "receiving"
        /\ spc' = [spc EXCEPT ![s] = spc'[s]]
        /\ spc'[s] \in {"stopping", "gone"} /\ UNCHANGED <<sdirty, tmeeting, tsocket>>
    BY <1>4 DEF StopCommand, Disconnect, HandlerGoto
  <2>2. PICK u \in Task : Explains(u, n)
    BY <2>1 DEF Explained
  <2>3. CASE u = own[s]
    <3>1. tsocket[u] = s
      BY <2>3, NoneIsNew DEF Ownership
    <3>2. tpc'[u] = Cancelled(tpc[u])
      BY <2>3, <2>0, Zenon DEF CancelOwn
    <3>3. Explains(u, n)'
      BY <2>1, <2>2, <3>1, <3>2 DEF Explains, Cancelled
    <3>4. QED
      BY <3>3
  <2>4. CASE u # own[s]
    <3>1. tpc'[u] = tpc[u] /\ tdirty'[u] = tdirty[u]
      BY <2>4, <2>0, Zenon DEF CancelOwn
    <3>2. Explains(u, n)'
      BY <1>0, <2>1, <2>2, <3>1 DEF Explains
    <3>3. QED
      BY <3>2
  <2>5. QED
    BY <2>3, <2>4
<1>5. ASSUME NEW s \in Socket, StopRead(s) PROVE \E u \in Task : Explains(u, n)'
  <2>1. /\ reaped /\ status[n] \in Active /\ UNCHANGED <<tpc, tdirty, tmeeting, tsocket>>
        /\ spc[s] = "stopping" /\ spc' = [spc EXCEPT ![s] = "terminating"]
    BY <1>5 DEF StopRead, HandlerGoto
  <2>2. smeeting[s] \in Meeting
    BY <2>1 DEF Ownership
  <2>3. PICK d \in Termination(smeeting[s]) : sdirty' = [sdirty EXCEPT ![s] = d]
    BY <1>5 DEF StopRead
  <2>4. smeeting[s] = n => d.status # "same"
    BY <2>1, <2>2, TerminationIs
  <2>5. PICK u \in Task : Explains(u, n)
    BY <2>1 DEF Explained
  <2>6. tpc[u] # "unborn" /\ tmeeting[u] = n
    BY <2>5 DEF Explains
  <2>7. CASE tsocket[u] = s
    <3>1. sdirty'[s].status # "same"
      BY <1>0, <2>3, <2>4, <2>6, <2>7
    <3>2. Explains(u, n)'
      BY <2>1, <2>5, <2>7, <3>1 DEF Explains
    <3>3. QED
      BY <3>2
  <2>8. CASE tsocket[u] # s
    <3>1. /\ spc'[tsocket[u]] = spc[tsocket[u]] /\ sdirty'[tsocket[u]] = sdirty[tsocket[u]]
      BY <1>0, <2>1, <2>3, <2>6, <2>8
    <3>2. QED
      BY <2>1, <2>5, <3>1, StillExplains
  <2>9. QED
    BY <2>7, <2>8
<1>6. ASSUME NEW s \in Socket, StopSettings(s) \/ StopCommit(s)
      PROVE \E u \in Task : Explains(u, n)'
  <2>1. /\ reaped /\ UNCHANGED <<tpc, tdirty, tmeeting, tsocket>> /\ spc[s] = "terminating"
        /\ \A u \in Socket : u # s => spc'[u] = spc[u] /\ sdirty'[u] = sdirty[u]
    BY <1>6 DEF StopSettings, StopCommit, HandlerGoto
  <2>2. smeeting[s] \in Meeting /\ sdirty[s] \in Dirty /\ sdirty[s].status \in {"same", "terminated"}
    BY <2>1 DEF Ownership, Sessions
  <2>3. Commit(smeeting[s], sdirty[s], None) \/ InsertSettings(smeeting[s], sdirty[s])
    BY <1>6 DEF StopSettings, StopCommit
  <2>4. status[n] \in Active /\ (n = smeeting[s] => sdirty[s].status = "same")
    <3>1. status'[n] = IF n = smeeting[s] /\ sdirty[s].status # "same"
                       THEN sdirty[s].status ELSE status[n]
      BY <2>2, <2>3, StatusWritten
    <3>2. QED
      BY <2>2, <3>1
  <2>5. PICK u \in Task : Explains(u, n)
    BY <2>1, <2>4 DEF Explained
  <2>6. Explains(u, n)'
    BY <1>0, <2>1, <2>4, <2>5 DEF Explains
  <2>7. QED
    BY <2>6
<1>7. ASSUME NEW s \in Socket, HandlerDies(s) PROVE \E u \in Task : Explains(u, n)'
  <2>1. /\ reaped /\ status[n] \in Active /\ UNCHANGED <<tpc, tdirty, tmeeting, tsocket>>
        /\ spc' = [spc EXCEPT ![s] = "gone"]
        /\ \A u \in Socket : u # s => sdirty'[u] = sdirty[u]
    BY <1>7 DEF HandlerDies
  <2>2. PICK u \in Task : Explains(u, n)
    BY <2>1 DEF Explained
  <2>3. Explains(u, n)'
    BY <1>0, <2>1, <2>2 DEF Explains
  <2>4. QED
    BY <2>3
<1>8. ASSUME NEW t \in Task, TaskStep(t) PROVE \E u \in Task : Explains(u, n)'
  <2>1. CASE Explains(t, n)'
    BY <2>1
  <2>2. CASE ~Explains(t, n)'
    <3>0. /\ tmeeting[t] \in Meeting /\ tpc[t] \in Live
          /\ UNCHANGED <<spc, sdirty, tmeeting, tsocket, reaped>>
      BY <1>8, TaskMoves
    <3>1. status[n] \in Active /\ ~Explains(t, n)
      <4>1. CASE tmeeting[t] # n
        <5>1. status'[n] = status[n]
          BY <1>8, <3>0, <4>1, TaskRow DEF TaskWrites
        <5>2. QED
          BY <4>1, <5>1 DEF Explains
      <4>2. CASE tmeeting[t] = n /\ UNCHANGED status
        <5>1. CASE TaskEnter(t) \/ TaskAccept(t) \/ TaskConfigure(t)
          <6>1. tpc'[t] \in {"fetching", "configuring", "streaming"}
            BY <5>1 DEF TaskEnter, TaskAccept, TaskConfigure, Goto
          <6>2. QED
            BY <2>2, <3>0, <4>2, <6>1 DEF Explains
        <5>2. CASE TaskRefuse(t)
          <6>1. tpc'[t] = "refusing" /\ tdirty'[t] = Changes(n, "failed", "same")
            BY <4>2, <5>2 DEF TaskRefuse, Goto
          <6>2. tdirty'[t].status # "same"
            BY <4>2, <6>1 DEF Changes, Assigned
          <6>3. QED
            BY <2>2, <3>0, <4>2, <6>1, <6>2 DEF Explains
        <5>3. CASE TaskConclude(t)
          <6>1. PICK o \in Outcome :
                   tpc'[t] = "concluding" /\ tdirty'[t] = Changes(n, o, "own")
            BY <4>2, <5>3 DEF TaskConclude, Goto
          <6>2. tdirty'[t].status # "same"
            BY <4>2, <6>1 DEF Changes, Assigned
          <6>3. QED
            BY <2>2, <3>0, <4>2, <6>1, <6>2 DEF Explains
        <5>4. CASE TaskCancelled(t)
          <6>1. PICK d \in Termination(n) :
                   tpc[t] = "cancelling" /\ tpc'[t] = "terminating" /\ tdirty'[t] = d
            BY <4>2, <5>4 DEF TaskCancelled, Goto
          <6>2. tdirty'[t].status # "same"
            BY <4>2, <6>1, TerminationIs
          <6>3. QED
            BY <2>2, <3>0, <4>2, <6>1, <6>2 DEF Explains
        <5>5. CASE TaskRejectStatus(t) \/ TaskReleased(t) \/ TaskUnwind(t)
          BY <4>2, <5>5 DEF TaskRejectStatus, TaskReleased, TaskUnwind, Explains
        <5>6. CASE TaskDies(t)
          <6>1. tpc'[t] = "died" \/ (tpc[t] = "concluding" /\ Fails(n, tdirty[t]))
            BY <4>2, <5>6 DEF TaskDies, Leave
          <6>2. tpc'[t] # "died"
            BY <2>2, <3>0, <4>2 DEF Explains
          <6>3. ~ tdirty[t].settings
            BY <6>1, <6>2 DEF Sessions
          <6>4. ~ Exists(n)
            BY <6>1, <6>2, <6>3 DEF Fails, Lost
          <6>5. QED
            BY <4>2, <6>4
        <5>7. CASE TaskRefused(t) \/ TaskFinish(t) \/ TaskSettings(t) \/ TaskTerminates(t)
          <6>1. /\ tpc[t] \in {"refusing", "concluding", "terminating"}
                /\ Commit(n, tdirty[t], t) \/ InsertSettings(n, tdirty[t])
            BY <4>2, <5>7 DEF TaskRefused, TaskFinish, TaskSettings, TaskTerminates, Goto
          <6>2. tdirty[t] \in Dirty /\ tdirty[t].status \in {"same", "failed", "terminated"} \union Outcome
            BY <6>1 DEF Sessions
          <6>3. tdirty[t].status # "same" => status'[n] = tdirty[t].status
            BY <6>1, <6>2, StatusWritten
          <6>4. tdirty[t].status = "same"
            BY <6>2, <6>3
          <6>5. QED
            BY <4>2, <6>1, <6>4 DEF Explains
        <5>8. QED
          BY <1>8, <5>1, <5>2, <5>3, <5>4, <5>5, <5>6, <5>7 DEF TaskStep
      <4>3. CASE tmeeting[t] = n /\ status' # status
        <5>1. PICK st \in Status, lg \in Task \union {None} :
                 /\ TaskWrites(t, st, lg)
                 /\ \/ st = status[tmeeting[t]]
                    \/ /\ tpc[t] \in {"configuring", "refusing", "concluding", "terminating"}
                       /\ st = tdirty[t].status /\ st # "same"
          BY <1>8, TaskRow
        <5>2. st # status[n] /\ status'[n] = st /\ status' = [status EXCEPT ![n] = st]
          BY <4>3, <5>1 DEF TaskWrites
        <5>3. tpc[t] = "configuring"
          BY <4>3, <5>1, <5>2 DEF Sessions
        <5>4. tpc'[t] = "streaming" \/ UNCHANGED status
          BY <1>8, <5>3 DEF TaskStep, TaskEnter, TaskAccept, TaskRejectStatus, TaskConfigure,
               TaskRefuse, TaskRefused, TaskConclude, TaskFinish, TaskReleased, TaskDies,
               TaskCancelled, TaskSettings, TaskTerminates, TaskUnwind, Goto
        <5>5. QED
          BY <2>2, <3>0, <4>3, <5>4 DEF Explains
      <4>4. QED
        BY <4>1, <4>2, <4>3
    <3>2. PICK u \in Task : Explains(u, n)
      BY <3>0, <3>1 DEF Explained
    <3>3. u # t
      BY <3>1, <3>2
    <3>4. tpc'[u] = tpc[u] /\ tdirty'[u] = tdirty[u]
      <4>1. TaskGoesOn(t) \/ TaskLeaves(t)
        BY <1>8, TaskMoves
      <4>2. QED
        BY <3>3, <4>1 DEF TaskGoesOn, TaskLeaves, Leave
    <3>5. QED
      BY <3>0, <3>2, <3>4, StillExplains
  <2>3. QED
    BY <2>1, <2>2
<1>9. CASE Restart
  BY <1>9 DEF Restart, Reap
<1>10. CASE UNCHANGED vars
  BY <1>10, StillExplains DEF Explained
<1>11. QED
  BY <1>1, <1>2, <1>3, <1>4, <1>5, <1>6, <1>7, <1>8, <1>9, <1>10
     DEF Next, Rest, HandlerStep, StopStep

\* The inductive invariant of Meetings.
IInv == Ownership /\ Sessions /\ RegistryAccurate /\ Explained

\* Every reachable state satisfies the inductive invariant.
THEOREM Invariance == Spec => [](TypeOK /\ IInv)
<1>1. Init => TypeOK /\ IInv
  BY DEF Init, TypeOK, IInv, Ownership, Sessions, RegistryAccurate, Explained
<1>2. TypeOK /\ IInv /\ [Next]_vars => TypeOK' /\ IInv'
  BY TypeInductive, OwnershipInductive, SessionsInductive, RegistryInductive, ExplainedInductive
     DEF IInv
<1>3. QED
  BY <1>1, <1>2, PTL DEF Spec

\* The types hold in every reachable state.
THEOREM Typing == Spec => []TypeOK
<1>1. TypeOK /\ IInv => TypeOK
  OBVIOUS
<1>2. QED
  BY <1>1, Invariance, PTL

\* An entry of active_meetings never outlives the task it names, unless that
\* task was cancelled before its first step.
THEOREM RegistryIsAccurate == Spec => []RegistryAccurate
<1>1. TypeOK /\ IInv => RegistryAccurate
  BY DEF IInv
<1>2. QED
  BY <1>1, Invariance, PTL

\* A row that blocks every create is being driven, or one of its tasks ended in
\* one of the two ways that write nothing.
THEOREM ActiveRowIsExplained == Spec => []ActiveRowExplained
<1>1. TypeOK /\ IInv => ActiveRowExplained
  BY DEF IInv, Explained, Explains, ActiveRowExplained
<1>2. QED
  BY <1>1, Invariance, PTL

\* The stages after one row's status is written.
LEMMA StageWrite ==
    ASSUME TypeOK, NEW m \in Meeting, NEW st \in Status, m \notin creating,
           UNCHANGED creating, status' = [status EXCEPT ![m] = st]
    PROVE  [n \in Meeting |-> IF n \in creating' THEN "asked" ELSE StageOf(status'[n])]
             = [[n \in Meeting |-> IF n \in creating THEN "asked" ELSE StageOf(status[n])]
                  EXCEPT ![m] = StageOf(st)]
BY DEF TypeOK, StageOf

\* What writing one row is to its record.
LEMMA RowStep ==
    ASSUME TypeOK, Ownership, UNCHANGED creating,
           NEW m \in Meeting, NEW st \in Status, NEW lg \in Task \union {None},
           status' = [status EXCEPT ![m] = st], log' = [log EXCEPT ![m] = lg],
           st # status[m] \/ lg # log[m] => Exists(m),
           \/ st = status[m] /\ lg \in {log[m], None}
           \/ st \in Active /\ lg = log[m]
           \/ st \in Ended /\ lg \in {log[m], None}
           \/ /\ st \in Outcome \union {status[m]} /\ lg \in Task
              /\ status[m] \notin {"none", "draft"}
    PROVE  [Record!RecordNext]_(Record!recordVars)
<1> USE DEF TypeOK
<1> DEFINE stage == [n \in Meeting |-> IF n \in creating THEN "asked" ELSE StageOf(status[n])]
           held == {n \in Meeting : log[n] # None}
<1>1. CASE st = status[m] /\ lg = log[m]
  <2>1. status' = status /\ log' = log
    BY <1>1
  <2>2. QED
    BY <2>1 DEF Record!recordVars
<1>2. ASSUME Exists(m)
      PROVE  /\ m \notin creating
             /\ stage' = [stage EXCEPT ![m] = StageOf(st)]
             /\ stage[m] = StageOf(status[m])
  BY <1>2, StageWrite DEF Ownership
<1>3. held' = IF lg = None THEN held \ {m} ELSE held \union {m}
  <2>1. \A n \in Meeting : log'[n] = IF n = m THEN lg ELSE log[n]
    OBVIOUS
  <2>2. QED
    BY <2>1
<1>4. lg = log[m] => held' = held
  <2>1. lg = log[m] => log' = log
    OBVIOUS
  <2>2. QED
    BY <2>1
<1>5. CASE Exists(m) /\ st \in Active /\ lg = log[m]
  <2>1. stage[m] \in {"draft", "live", "over"} /\ StageOf(st) = "live"
    BY <1>2, <1>5 DEF StageOf
  <2>2. Record!Start(m)
    BY <1>2, <1>4, <1>5, <2>1 DEF Record!Start, Record!Move
  <2>3. QED
    BY <2>2 DEF Record!RecordNext
<1>6. CASE Exists(m) /\ st \in Ended /\ lg \in {log[m], None}
  <2>1. stage[m] \in {"draft", "live", "over"} /\ StageOf(st) = "over"
    BY <1>2, <1>6 DEF StageOf
  <2>2. held' \in {held, held \ {m}}
    BY <1>3, <1>4, <1>6
  <2>3. Record!Abandon(m)
    BY <1>2, <1>6, <2>1, <2>2 DEF Record!Abandon, Record!Move
  <2>4. QED
    BY <2>3 DEF Record!RecordNext
<1>7. CASE st = status[m] /\ lg = None
  <2>1. status' = status
    BY <1>7
  <2>2. stage' = stage
    BY <2>1
  <2>3. Record!PurgeLate(m)
    BY <1>3, <1>7, <2>2 DEF Record!PurgeLate
  <2>4. QED
    BY <2>3 DEF Record!RecordNext
<1>8. CASE /\ Exists(m) /\ st \in Outcome \union {status[m]} /\ lg \in Task
           /\ status[m] \notin {"none", "draft"}
  <2>1. stage[m] \in {"live", "over"}
    BY <1>2, <1>8 DEF StageOf
  <2>2. stage' = [stage EXCEPT ![m] = "over"] \/ UNCHANGED stage
    <3>1. CASE st = status[m]
      <4>1. status' = status
        BY <3>1
      <4>2. QED
        BY <4>1
    <3>2. CASE st \in Outcome
      <4>1. StageOf(st) = "over"
        BY <3>2 DEF StageOf
      <4>2. QED
        BY <1>2, <1>8, <4>1
    <3>3. QED
      BY <1>8, <3>1, <3>2
  <2>3. held' = held \union {m}
    BY <1>3, <1>8
  <2>4. Record!Conclude(m)
    BY <2>1, <2>2, <2>3 DEF Record!Conclude
  <2>5. QED
    BY <2>4 DEF Record!RecordNext
<1>9. QED
  BY <1>1, <1>5, <1>6, <1>7, <1>8

\* Every step of Meetings is a step of the record of one meeting, the end of a
\* process, or leaves the records alone.
LEMMA RecordStep ==
    ASSUME TypeOK, Ownership, Sessions, [Next]_vars
    PROVE  [Record!RecordNext]_(Record!recordVars)
<1> USE DEF TypeOK
<1> DEFINE stage == [n \in Meeting |-> IF n \in creating THEN "asked" ELSE StageOf(status[n])]
           held == {n \in Meeting : log[n] # None}
<1>1. ASSUME UNCHANGED <<creating, status, log>> PROVE UNCHANGED Record!recordVars
  BY <1>1 DEF Record!recordVars
<1>2. ASSUME NEW m \in Meeting, CreateCheck(m) PROVE Record!RecordNext
  <2>1. \A n \in Meeting : stage[n] # "live"
    BY <1>2 DEF CreateCheck, StageOf
  <2>2. stage[m] = "none" /\ stage' = [stage EXCEPT ![m] = "asked"] /\ held' = held
    BY <1>2 DEF CreateCheck, StageOf
  <2>3. Record!Ask(m)
    BY <2>1, <2>2 DEF Record!Ask, Record!Move
  <2>4. QED
    BY <2>3 DEF Record!RecordNext
<1>3. ASSUME NEW m \in Meeting, CreateMeeting(m) PROVE Record!RecordNext
  <2>1. stage[m] = "asked" /\ stage' = [stage EXCEPT ![m] = "draft"] /\ held' = held
    BY <1>3 DEF CreateMeeting, StageOf
  <2>2. Record!Create(m)
    BY <2>1 DEF Record!Create, Record!Move
  <2>3. QED
    BY <2>2 DEF Record!RecordNext
<1>4. ASSUME NEW m \in Meeting, DeleteMeeting(m) PROVE Record!RecordNext
  <2>1. m \notin creating /\ UNCHANGED creating
    BY <1>4 DEF DeleteMeeting, Ownership
  <2>2. /\ stage[m] \in {"draft", "live", "over"}
        /\ stage' = [stage EXCEPT ![m] = "gone"]
    <3>1. status' = [status EXCEPT ![m] = "deleted"] /\ "deleted" \in Status
      BY <1>4 DEF DeleteMeeting
    <3>2. stage' = [stage EXCEPT ![m] = StageOf("deleted")]
      BY <2>1, <3>1, StageWrite
    <3>3. stage[m] = StageOf(status[m])
      BY <2>1
    <3>4. QED
      BY <1>4, <3>2, <3>3 DEF DeleteMeeting, StageOf
  <2>3. held' = held \ {m}
    BY <1>4 DEF DeleteMeeting
  <2>4. Record!Delete(m)
    BY <2>2, <2>3 DEF Record!Delete, Record!Move
  <2>5. QED
    BY <2>4 DEF Record!RecordNext
<1>5. ASSUME NEW s \in Socket, ClientDrops(s) \/ (\E m \in Meeting : Connect(s, m))
      PROVE  UNCHANGED Record!recordVars
  BY <1>1, <1>5 DEF ClientDrops, Connect
<1>6. ASSUME NEW s \in Socket, HandlerStep(s)
      PROVE  [Record!RecordNext]_(Record!recordVars)
  <2>1. smeeting[s] \in Meeting /\ UNCHANGED creating
    BY <1>6, HandlerRow DEF HandlerStep, StopStep, StartCheck, StartRead, StartCommit,
       StopCommand, StopRead, StopSettings, StopCommit, HandlerDies, Disconnect
  <2>2. PICK st \in Status, lg \in {log[smeeting[s]], None} :
           /\ HandlerWrites(s, st, lg)
           /\ \/ st = status[smeeting[s]]
              \/ spc[s] = "queueing" /\ st = "queued"
              \/ spc[s] = "terminating" /\ st = "terminated"
           /\ lg = log[smeeting[s]] \/ spc[s] = "terminating"
    BY <1>6, HandlerRow
  <2>3. lg \in Task \union {None}
    BY <2>1
  <2>4. \/ st = status[smeeting[s]] /\ lg \in {log[smeeting[s]], None}
        \/ st \in Active /\ lg = log[smeeting[s]]
        \/ st \in Ended /\ lg \in {log[smeeting[s]], None}
    BY <2>2
  <2>5. QED
    BY <2>1, <2>2, <2>3, <2>4, RowStep DEF HandlerWrites
<1>7. ASSUME NEW t \in Task, TaskStep(t)
      PROVE  [Record!RecordNext]_(Record!recordVars)
  <2>1. tmeeting[t] \in Meeting /\ UNCHANGED creating
    BY <1>7, TaskMoves
  <2>2. PICK st \in Status, lg \in Task \union {None} :
           /\ TaskWrites(t, st, lg)
           /\ \/ lg = log[tmeeting[t]]
              \/ tpc[t] = "concluding" /\ lg = t
              \/ tpc[t] = "terminating" /\ lg = None
           /\ tpc[t] = "concluding" /\ st # status[tmeeting[t]] => lg = t
           /\ \/ st = status[tmeeting[t]]
              \/ /\ tpc[t] \in {"configuring", "refusing", "concluding", "terminating"}
                 /\ st = tdirty[t].status /\ st # "same"
    BY <1>7, TaskRow
  <2>3. \/ st = status[tmeeting[t]]
        \/ tpc[t] = "configuring" /\ st = "running"
        \/ tpc[t] = "refusing" /\ st = "failed"
        \/ tpc[t] = "concluding" /\ st \in Outcome
        \/ tpc[t] = "terminating" /\ st = "terminated"
    BY <2>2 DEF Sessions
  <2>4. tpc[t] = "concluding" => status[tmeeting[t]] \notin {"none", "draft"}
    BY DEF Ownership
  <2>5. \/ st = status[tmeeting[t]] /\ lg \in {log[tmeeting[t]], None}
        \/ st \in Active /\ lg = log[tmeeting[t]]
        \/ st \in Ended /\ lg \in {log[tmeeting[t]], None}
        \/ /\ st \in Outcome \union {status[tmeeting[t]]} /\ lg \in Task
           /\ status[tmeeting[t]] \notin {"none", "draft"}
    BY <2>2, <2>3, <2>4
  <2>6. QED
    BY <2>1, <2>2, <2>5, RowStep DEF TaskWrites
<1>8. CASE Restart
  <2>1. creating' = {} /\ held' = held
    BY <1>8 DEF Restart
  <2>2. \A m \in creating : status[m] = "none"
    BY DEF Ownership
  <2>3. CASE Reap
    <3>1. Record!AbandonAll
      BY <2>1, <2>2, <2>3 DEF Reap, StageOf, Record!AbandonAll
    <3>2. QED
      BY <3>1 DEF Record!RecordNext
  <2>4. CASE UNCHANGED status
    <3>1. Record!Forget
      BY <2>1, <2>2, <2>4 DEF StageOf, Record!Forget
    <3>2. QED
      BY <3>1 DEF Record!RecordNext
  <2>5. QED
    BY <1>8, <2>3, <2>4 DEF Restart
<1>9. CASE UNCHANGED vars
  BY <1>1, <1>9
<1>10. QED
  BY <1>2, <1>3, <1>4, <1>5, <1>6, <1>7, <1>8, <1>9 DEF Next, Rest

\* Meetings implements MeetingRecord.
THEOREM ImplementsRecord == Spec => RefinesRecord
<1>1. Init => Record!RecordInit
  BY DEF Init, Record!RecordInit, StageOf
<1>2. TypeOK /\ IInv /\ [Next]_vars => [Record!RecordNext]_(Record!recordVars)
  BY RecordStep DEF IInv
<1>3. QED
  BY <1>1, <1>2, Invariance, PTL DEF Spec, RefinesRecord, Record!RecordSpec
-----------------------------------------------------------------------------
(***************************************************************************)
(* One tab per meeting (OneTabSpec).  The invariant of that environment:   *)
(* one handler per meeting, one registered task, and that handler holds    *)
(* it, so its stop reaches the task before it writes the row.              *)
(***************************************************************************)
Open(s) == spc[s] \notin {"unopened", "gone"}

\* Two open handlers are on different meetings.
OneHandler ==
    /\ \A s \in Socket : spc[s] = "unopened" => smeeting[s] = None
    /\ \A s, u \in Socket : Open(s) /\ Open(u) /\ smeeting[s] = smeeting[u] => s = u

\* A live task is its meeting's entry, and a start under way found none.
Registered ==
    /\ \A t \in Task : tpc[t] \in Live => registry[tmeeting[t]] = t
    /\ \A s \in Socket : spc[s] \in {"starting", "queueing"} => registry[smeeting[s]] = None

\* A live task is the one its socket's handler would cancel; the handler that
\* is gone has cancelled it.
Held ==
    \A t \in Task : tpc[t] \in Live =>
        \/ spc[tsocket[t]] = "gone" /\ ~ Drives(t)
        \/ spc[tsocket[t]] # "gone" /\ own[tsocket[t]] = t

\* A handler about to write "terminated" has cancelled its meeting's task, and
\* a run that may still write its status is not of a terminated meeting.
Stopped ==
    /\ \A s \in Socket, t \in Task :
          spc[s] \in {"stopping", "terminating"} /\ tmeeting[t] = smeeting[s] => ~ Drives(t)
    /\ \A t \in Task : tpc[t] \in {"configuring", "streaming", "concluding", "refusing"} =>
          status[tmeeting[t]] # "terminated"

\* A termination that has only the purge to write is of a row that nobody has
\* started since it was read.
LatePurge ==
    /\ \A s \in Socket : spc[s] = "terminating" /\ sdirty[s].status = "same" =>
          status[smeeting[s]] \in {"terminated", "deleted"}
    /\ \A t \in Task : tpc[t] = "terminating" /\ tdirty[t].status = "same" =>
          status[tmeeting[t]] \in {"terminated", "deleted"}

\* The invariant of one tab per meeting.
TabInv == OneHandler /\ Registered /\ Held /\ Stopped /\ LatePurge /\ CompletedHasTranscript

\* A tab opened after the others are gone keeps the handlers apart.
LEMMA OneHandlerInductive ==
    ASSUME TypeOK, Ownership, OneHandler, [OneTabNext]_vars
    PROVE  OneHandler'
<1> USE DEF TypeOK, OneHandler, Open
<1>1. ASSUME NEW m \in Meeting, CreateCheck(m) \/ CreateMeeting(m) \/ DeleteMeeting(m)
      PROVE OneHandler'
  BY <1>1 DEF CreateCheck, CreateMeeting, DeleteMeeting
<1>2. ASSUME NEW s \in Socket, NEW m \in Meeting, Connect(s, m), OneTabNext
      PROVE  OneHandler'
  <2>1. /\ spc[s] = "unopened" /\ spc' = [spc EXCEPT ![s] = "receiving"]
        /\ smeeting' = [smeeting EXCEPT ![s] = m]
    BY <1>2 DEF Connect
  <2>2. \A u \in Socket : u # s /\ smeeting[u] = m => spc[u] = "gone"
    BY <1>2, <2>1 DEF OneTabNext
  <2>3. QED
    BY <2>1, <2>2
<1>3. ASSUME NEW s \in Socket, ClientDrops(s) PROVE OneHandler'
  BY <1>3 DEF ClientDrops
<1>4. ASSUME NEW s \in Socket, HandlerStep(s) PROVE OneHandler'
  <2>1. /\ UNCHANGED smeeting /\ spc[s] # "unopened" /\ spc[s] # "gone"
        /\ spc' = [spc EXCEPT ![s] = spc'[s]] /\ spc'[s] # "unopened"
    BY <1>4 DEF HandlerStep, StopStep, StartCheck, StartRead, StartCommit, StopCommand,
         StopRead, StopSettings, StopCommit, HandlerDies, Disconnect, HandlerGoto
  <2>2. QED
    BY <2>1
<1>5. ASSUME NEW t \in Task, TaskStep(t) PROVE OneHandler'
  <2>1. UNCHANGED <<spc, smeeting>>
    BY <1>5, TaskMoves
  <2>2. QED
    BY <2>1
<1>6. CASE Restart
  BY <1>6 DEF Restart
<1>7. CASE UNCHANGED vars
  BY <1>7
<1>8. QED
  BY <1>1, <1>2, <1>3, <1>4, <1>5, <1>6, <1>7 DEF OneTabNext, Next, Rest

\* A start finds no entry, so no live task, and nothing registers one before it
\* does.
LEMMA RegisteredInductive ==
    ASSUME TypeOK, Ownership, OneHandler, Registered, [OneTabNext]_vars
    PROVE  Registered'
<1> USE DEF TypeOK, Registered
<1>0. /\ \A u \in Task : tpc[u] \in Live => tmeeting[u] \in Meeting
      /\ \A u \in Socket : spc[u] # "unopened" => smeeting[u] \in Meeting
  BY DEF Ownership
<1>1. ASSUME NEW m \in Meeting, CreateCheck(m) \/ CreateMeeting(m) \/ DeleteMeeting(m)
      PROVE  Registered'
  BY <1>1 DEF CreateCheck, CreateMeeting, DeleteMeeting
<1>2. ASSUME NEW s \in Socket,
             \/ \E m \in Meeting : Connect(s, m)
             \/ ClientDrops(s) \/ StartCheck(s) \/ StartRead(s) \/ StopStep(s)
      PROVE  Registered'
  <2>1. /\ UNCHANGED <<tpc, tmeeting, registry>>
        /\ \A u \in Socket : u # s => spc'[u] = spc[u] /\ smeeting'[u] = smeeting[u]
        /\ spc'[s] \in {"starting", "queueing"} =>
              UNCHANGED smeeting /\ registry[smeeting[s]] = None
    BY <1>2 DEF Connect, ClientDrops, StartCheck, StartRead, StopStep, StopRead, StopSettings,
         StopCommit, HandlerDies, HandlerGoto
  <2>2. QED
    BY <2>1
<1>3. ASSUME NEW s \in Socket, NEW t \in Task, StartCommit(s, t) PROVE Registered'
  <2>1. /\ spc[s] = "queueing" /\ spc' = [spc EXCEPT ![s] = "receiving"] /\ UNCHANGED smeeting
        /\ tpc' = [tpc EXCEPT ![t] = "created"]
        /\ tmeeting' = [tmeeting EXCEPT ![t] = smeeting[s]]
        /\ registry' = [registry EXCEPT ![smeeting[s]] = t]
    BY <1>3 DEF StartCommit, HandlerGoto
  <2>2. smeeting[s] \in Meeting /\ registry[smeeting[s]] = None
    BY <1>0, <2>1
  <2>3. \A u \in Task : tpc[u] \in Live => tmeeting[u] # smeeting[s]
    BY <2>2
  <2>4. \A u \in Socket : spc[u] \in {"starting", "queueing"} /\ smeeting[u] = smeeting[s] => u = s
    BY <2>1 DEF OneHandler, Open
  <2>5. QED
    BY <1>0, <2>1, <2>2, <2>3, <2>4
<1>4. ASSUME NEW s \in Socket, StopCommand(s) \/ Disconnect(s) PROVE Registered'
  <2>1. /\ UNCHANGED <<smeeting, tmeeting, registry>>
        /\ \A u \in Socket : spc'[u] \in {"starting", "queueing"} => spc'[u] = spc[u]
        /\ CancelOwn(s)
    BY <1>4 DEF StopCommand, Disconnect, HandlerGoto
  <2>2. \A t \in Task : tpc'[t] \in Live => tpc[t] \in Live
    BY <2>1 DEF CancelOwn, Cancelled
  <2>3. QED
    BY <2>1, <2>2
<1>5. ASSUME NEW t \in Task, TaskStep(t) PROVE Registered'
  <2>1. /\ tpc[t] \in Live /\ UNCHANGED <<spc, smeeting, tmeeting>>
    BY <1>5, TaskMoves
  <2>2. CASE TaskGoesOn(t)
    <3>1. UNCHANGED registry /\ \A u \in Task : tpc'[u] \in Live => tpc[u] \in Live
      BY <2>1, <2>2 DEF TaskGoesOn
    <3>2. QED
      BY <2>1, <3>1
  <2>3. CASE TaskLeaves(t)
    <3>1. PICK how \in {"done", "died"} : Leave(t, how)
      BY <2>3 DEF TaskLeaves
    <3>2. /\ tpc' = [tpc EXCEPT ![t] = how]
          /\ registry' = [registry EXCEPT ![tmeeting[t]] = None]
      BY <3>1 DEF Leave
    <3>3. \A u \in Task : tpc'[u] \in Live => u # t /\ tpc[u] \in Live /\ tmeeting[u] # tmeeting[t]
      BY <2>1, <3>2
    <3>4. QED
      BY <1>0, <2>1, <3>2, <3>3
  <2>4. QED
    BY <1>5, <2>2, <2>3, TaskMoves
<1>6. CASE Restart
  BY <1>6 DEF Restart, Ownership
<1>7. CASE UNCHANGED vars
  BY <1>7
<1>8. QED
  BY <1>1, <1>2, <1>3, <1>4, <1>5, <1>6, <1>7 DEF OneTabNext, Next, Rest, HandlerStep

\* A handler never forgets a live task: it starts one only when the meeting has
\* none, and leaves only after cancelling it.
LEMMA HeldInductive ==
    ASSUME TypeOK, Ownership, OneHandler, Registered, Held, Stopped, [OneTabNext]_vars
    PROVE  Held'
<1> USE DEF TypeOK, Held, Drives
<1>0. \A u \in Task : tpc[u] \in Live =>
          /\ tsocket[u] \in Socket /\ spc[tsocket[u]] # "unopened"
          /\ tmeeting[u] = smeeting[tsocket[u]]
  BY DEF Ownership
<1>1. ASSUME NEW m \in Meeting, CreateCheck(m) \/ CreateMeeting(m) \/ DeleteMeeting(m)
      PROVE  Held'
  BY <1>0, <1>1 DEF CreateCheck, CreateMeeting, DeleteMeeting
<1>2. ASSUME NEW s \in Socket,
             \/ \E m \in Meeting : Connect(s, m)
             \/ ClientDrops(s) \/ StartCheck(s) \/ StartRead(s) \/ StopRead(s)
             \/ StopSettings(s) \/ StopCommit(s)
      PROVE  Held'
  <2>1. /\ UNCHANGED <<tpc, tsocket, own>>
        /\ \A u \in Socket : spc[u] # "unopened" => (spc'[u] = "gone" <=> spc[u] = "gone")
    BY <1>2 DEF Connect, ClientDrops, StartCheck, StartRead, StopRead, StopSettings, StopCommit,
         HandlerGoto
  <2>2. QED
    BY <1>0, <2>1
<1>3. ASSUME NEW s \in Socket, HandlerDies(s) PROVE Held'
  <2>1. /\ UNCHANGED <<tpc, tsocket, own>> /\ spc' = [spc EXCEPT ![s] = "gone"]
        /\ spc[s] \in {"queueing", "terminating"}
    BY <1>3 DEF HandlerDies
  <2>2. \A u \in Task : tpc[u] \in Live /\ tsocket[u] = s => ~ Drives(u)
    BY <1>0, <2>1 DEF Registered, Stopped
  <2>3. QED
    BY <1>0, <2>1, <2>2
<1>4. ASSUME NEW s \in Socket, NEW t \in Task, StartCommit(s, t) PROVE Held'
  <2>1. /\ spc[s] = "queueing" /\ spc' = [spc EXCEPT ![s] = "receiving"]
        /\ tpc' = [tpc EXCEPT ![t] = "created"] /\ tsocket' = [tsocket EXCEPT ![t] = s]
        /\ own' = [own EXCEPT ![s] = t]
    BY <1>4 DEF StartCommit, HandlerGoto
  <2>2. \A u \in Task : tpc[u] \in Live => tsocket[u] # s
    BY <1>0, <2>1 DEF Registered
  <2>3. QED
    BY <1>0, <2>1, <2>2
<1>5. ASSUME NEW s \in Socket, StopCommand(s) \/ Disconnect(s) PROVE Held'
  <2>1. /\ UNCHANGED <<own, tsocket>> /\ spc[s] = "receiving"
        /\ spc' = [spc EXCEPT ![s] = "stopping"] \/ spc' = [spc EXCEPT ![s] = "gone"]
        /\ tpc' = [t \in Task |-> IF t = own[s] THEN Cancelled(tpc[t]) ELSE tpc[t]]
    BY <1>5 DEF StopCommand, Disconnect, CancelOwn, HandlerGoto
  <2>2. SUFFICES ASSUME NEW u \in Task, tpc'[u] \in Live
        PROVE  \/ spc'[tsocket[u]] = "gone" /\ ~ Drives(u)'
               \/ spc'[tsocket[u]] # "gone" /\ own[tsocket[u]] = u
    BY <2>1
  <2>3. tpc[u] \in Live /\ (~ Drives(u) => ~ Drives(u)')
    BY <2>1, <2>2 DEF Cancelled
  <2>4. tsocket[u] = s => own[s] = u /\ ~ Drives(u)'
    BY <2>1, <2>3 DEF Cancelled
  <2>5. QED
    BY <1>0, <2>1, <2>3, <2>4
<1>6. ASSUME NEW t \in Task, TaskStep(t) PROVE Held'
  <2>1. UNCHANGED <<spc, own, tsocket>>
    BY <1>6, TaskMoves
  <2>2. \A u \in Task : (tpc'[u] \in Live => tpc[u] \in Live) /\ (Drives(u)' => Drives(u))
    BY <1>6, TaskMoves DEF TaskGoesOn, TaskLeaves, Leave
  <2>3. QED
    BY <2>1, <2>2
<1>7. CASE Restart
  BY <1>7 DEF Restart
<1>8. CASE UNCHANGED vars
  BY <1>8
<1>9. QED
  BY <1>1, <1>2, <1>3, <1>4, <1>5, <1>6, <1>7, <1>8
     DEF OneTabNext, Next, Rest, HandlerStep, StopStep

\* Two live tasks of one meeting would both be its entry.
LEMMA OneLiveTask ==
    ASSUME Registered PROVE OneTaskPerMeeting
BY DEF Registered, OneTaskPerMeeting

\* The stop reaches the only task that could still write an outcome.
LEMMA StoppedInductive ==
    ASSUME TypeOK, Ownership, Sessions, OneHandler, Registered, Held, Stopped, [OneTabNext]_vars
    PROVE  Stopped'
<1> USE DEF TypeOK, Stopped, Drives
<1>0. \A u \in Task : tpc[u] \in Live =>
          /\ tsocket[u] \in Socket /\ spc[tsocket[u]] # "unopened"
          /\ tmeeting[u] \in Meeting /\ tmeeting[u] = smeeting[tsocket[u]]
  BY DEF Ownership
<1>1. ASSUME NEW m \in Meeting, CreateCheck(m) \/ CreateMeeting(m) \/ DeleteMeeting(m)
      PROVE  Stopped'
  <2>1. /\ UNCHANGED <<spc, smeeting, tpc, tmeeting>>
        /\ \A n \in Meeting : status'[n] = "terminated" => status[n] = "terminated"
    BY <1>1 DEF CreateCheck, CreateMeeting, DeleteMeeting
  <2>2. QED
    BY <1>0, <2>1
<1>2. ASSUME NEW s \in Socket,
             \/ \E m \in Meeting : Connect(s, m)
             \/ ClientDrops(s) \/ StartCheck(s) \/ StartRead(s) \/ StopRead(s) \/ HandlerDies(s)
      PROVE  Stopped'
  <2>1. /\ UNCHANGED <<status, tpc, tmeeting>>
        /\ \A u \in Socket : spc'[u] \in {"stopping", "terminating"} =>
              spc[u] \in {"stopping", "terminating"} /\ smeeting'[u] = smeeting[u]
    BY <1>2 DEF Connect, ClientDrops, StartCheck, StartRead, StopRead, HandlerDies, HandlerGoto
  <2>2. QED
    BY <2>1
<1>3. ASSUME NEW s \in Socket, NEW t \in Task, StartCommit(s, t) PROVE Stopped'
  <2>1. /\ spc[s] = "queueing" /\ spc' = [spc EXCEPT ![s] = "receiving"] /\ UNCHANGED smeeting
        /\ tpc' = [tpc EXCEPT ![t] = "created"]
        /\ tmeeting' = [tmeeting EXCEPT ![t] = smeeting[s]]
        /\ Commit(smeeting[s], sdirty[s], None)
    BY <1>3 DEF StartCommit, HandlerGoto
  <2>2. smeeting[s] \in Meeting /\ sdirty[s] \in Dirty /\ sdirty[s].status \in {"same", "queued"}
    BY <2>1 DEF Ownership, Sessions
  <2>3. \A m \in Meeting : status'[m] = "terminated" => status[m] = "terminated"
    BY <2>1, <2>2, StatusWritten
  <2>4. \A u \in Socket : spc[u] \in {"stopping", "terminating"} => smeeting[u] # smeeting[s]
    BY <2>1 DEF OneHandler, Open
  <2>5. QED
    BY <1>0, <2>1, <2>3, <2>4
<1>4. ASSUME NEW s \in Socket, StopCommand(s) \/ Disconnect(s) PROVE Stopped'
  <2>1. /\ UNCHANGED <<status, smeeting, tmeeting>> /\ spc[s] = "receiving"
        /\ \A u \in Socket \ {s} : spc'[u] = spc[u]
        /\ tpc' = [t \in Task |-> IF t = own[s] THEN Cancelled(tpc[t]) ELSE tpc[t]]
    BY <1>4 DEF StopCommand, Disconnect, CancelOwn, HandlerGoto
  <2>2. \A u \in Task :
           /\ Drives(u)' => Drives(u)
           /\ tpc'[u] \in {"configuring", "streaming", "concluding", "refusing"} => tpc'[u] = tpc[u]
    BY <2>1 DEF Cancelled
  <2>3. ASSUME NEW u \in Task, tmeeting[u] = smeeting[s] PROVE ~ Drives(u)'
    <3>1. CASE ~ Drives(u)
      BY <2>2, <3>1
    <3>2. CASE Drives(u)
      <4>1. own[tsocket[u]] = u /\ tsocket[u] = s
        BY <1>0, <2>1, <2>3, <3>2 DEF Held, OneHandler, Open
      <4>2. QED
        BY <2>1, <4>1 DEF Cancelled
    <3>3. QED
      BY <3>1, <3>2
  <2>4. QED
    BY <2>1, <2>2, <2>3
<1>5. ASSUME NEW s \in Socket, StopSettings(s) \/ StopCommit(s) PROVE Stopped'
  <2>1. /\ spc[s] = "terminating" /\ UNCHANGED <<tpc, tmeeting, smeeting>>
        /\ \A u \in Socket : spc'[u] \in {"stopping", "terminating"} => spc'[u] = spc[u]
        /\ Commit(smeeting[s], sdirty[s], None) \/ InsertSettings(smeeting[s], sdirty[s])
    BY <1>5 DEF StopSettings, StopCommit, HandlerGoto
  <2>2. \A u \in Task : tmeeting[u] = smeeting[s] => ~ Drives(u)
    BY <2>1
  <2>3. smeeting[s] \in Meeting /\ sdirty[s] \in Dirty
    BY <2>1 DEF Ownership
  <2>4. \A m \in Meeting : m # smeeting[s] => status'[m] = status[m]
    BY <2>1, <2>3, StatusWritten
  <2>5. QED
    BY <1>0, <2>1, <2>2, <2>4
<1>6. ASSUME NEW t \in Task, TaskStep(t) PROVE Stopped'
  <2>1. tpc[t] \in Live /\ UNCHANGED <<spc, smeeting, tmeeting>>
    BY <1>6, TaskMoves
  <2>2. \A u \in Task : (Drives(u)' => Drives(u)) /\ (u # t => tpc'[u] = tpc[u])
    BY <1>6, TaskMoves DEF TaskGoesOn, TaskLeaves, Leave
  <2>3. \A u \in Task : tpc[u] \in Live /\ u # t => tmeeting[u] # tmeeting[t]
    BY <2>1, OneLiveTask DEF OneTaskPerMeeting
  <2>4. PICK st \in Status, lg \in Task \union {None} :
           /\ TaskWrites(t, st, lg)
           /\ \/ st = status[tmeeting[t]]
              \/ /\ tpc[t] \in {"configuring", "refusing", "concluding", "terminating"}
                 /\ st = tdirty[t].status /\ st # "same"
    BY <1>6, TaskRow
  <2>5. \A m \in Meeting : status'[m] = IF m = tmeeting[t] THEN st ELSE status[m]
    BY <2>4 DEF TaskWrites
  <2>6. tpc'[t] \in {"configuring", "streaming", "concluding", "refusing"} => st # "terminated"
    <3>1. CASE TaskAccept(t)
      <4>1. UNCHANGED status /\ status[tmeeting[t]] \in Runnable
        BY <3>1 DEF TaskAccept
      <4>2. QED
        BY <1>0, <2>1, <2>5, <4>1
    <3>2. CASE ~ TaskAccept(t)
      <4>1. tpc'[t] \in {"configuring", "streaming", "concluding", "refusing"} =>
               tpc[t] \in {"configuring", "streaming"}
        BY <1>6, <3>2 DEF TaskStep, TaskEnter, TaskRejectStatus, TaskConfigure, TaskRefuse,
             TaskRefused, TaskConclude, TaskFinish, TaskReleased, TaskDies, TaskCancelled,
             TaskSettings, TaskTerminates, TaskUnwind, Leave, Goto
      <4>2. tpc[t] = "configuring" => tdirty[t].status \in {"same", "running"}
        BY DEF Sessions
      <4>3. QED
        BY <2>4, <4>1, <4>2
    <3>3. QED
      BY <3>1, <3>2
  <2>7. QED
    BY <1>0, <2>1, <2>2, <2>3, <2>5, <2>6
<1>7. CASE Restart
  BY <1>7 DEF Restart
<1>8. CASE UNCHANGED vars
  BY <1>8
<1>9. QED
  BY <1>1, <1>2, <1>3, <1>4, <1>5, <1>6, <1>7, <1>8
     DEF OneTabNext, Next, Rest, HandlerStep, StopStep

\* Between the read of a termination and its commit, only another termination
\* or a delete writes the row.
LEMMA LatePurgeInductive ==
    ASSUME TypeOK, Ownership, Sessions, OneHandler, Registered, Stopped, LatePurge, [OneTabNext]_vars
    PROVE  LatePurge'
<1> USE DEF TypeOK, LatePurge
<1> DEFINE Settled == {"terminated", "deleted"}
<1>0. /\ \A u \in Task : tpc[u] \in Live => tmeeting[u] \in Meeting
      /\ \A u \in Socket : spc[u] # "unopened" => smeeting[u] \in Meeting /\ status[smeeting[u]] # "none"
  BY DEF Ownership
<1>1. ASSUME NEW m \in Meeting, CreateCheck(m) \/ CreateMeeting(m) \/ DeleteMeeting(m)
      PROVE  LatePurge'
  <2>1. /\ UNCHANGED <<spc, smeeting, sdirty, tpc, tmeeting, tdirty>>
        /\ \A n \in Meeting : status[n] \in Settled => status'[n] \in Settled
    BY <1>1 DEF CreateCheck, CreateMeeting, DeleteMeeting, Ownership
  <2>2. QED
    BY <1>0, <2>1
<1>2. ASSUME NEW s \in Socket,
             \/ \E m \in Meeting : Connect(s, m)
             \/ ClientDrops(s) \/ StartCheck(s) \/ StartRead(s) \/ HandlerDies(s)
             \/ StopCommand(s) \/ Disconnect(s)
      PROVE  LatePurge'
  <2>1. /\ UNCHANGED <<status, tmeeting>>
        /\ \A u \in Socket : spc'[u] = "terminating" =>
              spc[u] = "terminating" /\ smeeting'[u] = smeeting[u] /\ sdirty'[u] = sdirty[u]
    BY <1>2 DEF Connect, ClientDrops, StartCheck, StartRead, HandlerDies, StopCommand,
         Disconnect, HandlerGoto
  <2>2. \A t \in Task : tpc'[t] = "terminating" => tpc[t] = "terminating" /\ tdirty'[t] = tdirty[t]
    <3>1. UNCHANGED <<tpc, tdirty>> \/ CancelOwn(s)
      BY <1>2 DEF Connect, ClientDrops, StartCheck, StartRead, HandlerDies, StopCommand, Disconnect
    <3>2. QED
      BY <3>1 DEF CancelOwn, Cancelled
  <2>3. QED
    BY <2>1, <2>2
<1>3. ASSUME NEW s \in Socket, NEW t \in Task, StartCommit(s, t) PROVE LatePurge'
  <2>1. /\ spc[s] = "queueing" /\ spc' = [spc EXCEPT ![s] = "receiving"] /\ UNCHANGED smeeting
        /\ tpc[t] = "unborn" /\ tpc' = [tpc EXCEPT ![t] = "created"]
        /\ tmeeting' = [tmeeting EXCEPT ![t] = smeeting[s]] /\ UNCHANGED tdirty
        /\ sdirty' = [sdirty EXCEPT ![s] = Clean]
        /\ Commit(smeeting[s], sdirty[s], None)
    BY <1>3 DEF StartCommit, HandlerGoto
  <2>2. smeeting[s] \in Meeting /\ sdirty[s] \in Dirty
    BY <1>0, <2>1
  <2>3. \A m \in Meeting : m # smeeting[s] => status'[m] = status[m]
    BY <2>1, <2>2, StatusWritten
  <2>4. \A u \in Socket : spc[u] = "terminating" => smeeting[u] # smeeting[s]
    BY <2>1 DEF OneHandler, Open
  <2>5. \A u \in Task : tpc[u] = "terminating" => tmeeting[u] # smeeting[s]
    BY <2>1 DEF Registered
  <2>6. \A u \in Socket : spc'[u] = "terminating" =>
           spc[u] = "terminating" /\ sdirty'[u] = sdirty[u] /\ status'[smeeting[u]] = status[smeeting[u]]
    BY <1>0, <2>1, <2>3, <2>4
  <2>7. \A u \in Task : tpc'[u] = "terminating" =>
           tpc[u] = "terminating" /\ tmeeting'[u] = tmeeting[u] /\ status'[tmeeting[u]] = status[tmeeting[u]]
    BY <1>0, <2>1, <2>3, <2>5
  <2>8. QED
    BY <2>1, <2>6, <2>7
<1>4. ASSUME NEW s \in Socket, StopRead(s) PROVE LatePurge'
  <2>1. /\ UNCHANGED <<status, smeeting, tpc, tmeeting, tdirty>>
        /\ spc[s] = "stopping" /\ spc' = [spc EXCEPT ![s] = "terminating"]
    BY <1>4 DEF StopRead, HandlerGoto
  <2>2. PICK d \in Termination(smeeting[s]) : sdirty' = [sdirty EXCEPT ![s] = d]
    BY <1>4 DEF StopRead
  <2>3. smeeting[s] \in Meeting /\ status[smeeting[s]] # "none"
    BY <1>0, <2>1
  <2>4. d.status = "same" => status[smeeting[s]] \in Settled
    BY <2>3, TerminationIs
  <2>5. QED
    BY <2>1, <2>2, <2>4
<1>5. ASSUME NEW s \in Socket, StopSettings(s) \/ StopCommit(s) PROVE LatePurge'
  <2>1. /\ spc[s] = "terminating" /\ UNCHANGED <<smeeting, tpc, tmeeting, tdirty>>
        /\ \A u \in Socket : u # s => spc'[u] = spc[u] /\ sdirty'[u] = sdirty[u]
        /\ Commit(smeeting[s], sdirty[s], None) \/ InsertSettings(smeeting[s], sdirty[s])
    BY <1>5 DEF StopSettings, StopCommit, HandlerGoto
  <2>2. smeeting[s] \in Meeting /\ sdirty[s] \in Dirty /\ sdirty[s].status \in {"same", "terminated"}
    BY <1>0, <2>1 DEF Sessions
  <2>3. \A m \in Meeting : status'[m] =
           IF m = smeeting[s] /\ sdirty[s].status # "same" THEN sdirty[s].status ELSE status[m]
    BY <2>1, <2>2, StatusWritten
  <2>4. status'[smeeting[s]] \in Settled /\ \A m \in Meeting : status[m] \in Settled => status'[m] \in Settled
    BY <2>1, <2>2, <2>3
  <2>5. QED
    BY <1>0, <2>1, <2>4
<1>6. ASSUME NEW t \in Task, TaskStep(t) PROVE LatePurge'
  <2>1. /\ tmeeting[t] \in Meeting /\ tpc[t] \in Live
        /\ UNCHANGED <<spc, smeeting, sdirty, tmeeting>>
    BY <1>6, TaskMoves
  <2>2. \A u \in Task : u # t => tpc'[u] = tpc[u] /\ tdirty'[u] = tdirty[u]
    BY <1>6, TaskMoves DEF TaskGoesOn, TaskLeaves, Leave
  <2>3. \A u \in Task : tpc[u] \in Live /\ u # t => tmeeting[u] # tmeeting[t]
    BY <2>1, OneLiveTask DEF OneTaskPerMeeting
  <2>4. PICK st \in Status, lg \in Task \union {None} :
           /\ TaskWrites(t, st, lg)
           /\ \/ st = status[tmeeting[t]]
              \/ /\ tpc[t] \in {"configuring", "refusing", "concluding", "terminating"}
                 /\ st = tdirty[t].status /\ st # "same"
    BY <1>6, TaskRow
  <2>5. \A m \in Meeting : status'[m] = IF m = tmeeting[t] THEN st ELSE status[m]
    BY <2>4 DEF TaskWrites
  <2>6. tpc[t] = "terminating" => st \in {status[tmeeting[t]], "terminated"}
    BY <2>4 DEF Sessions
  <2>7. \A s \in Socket : spc[s] = "terminating" /\ smeeting[s] = tmeeting[t] =>
           st \in {status[tmeeting[t]], "terminated"}
    BY <2>4, <2>6 DEF Stopped, Drives
  <2>8. tpc'[t] = "terminating" /\ tdirty'[t].status = "same" => st \in Settled
    <3>1. CASE TaskCancelled(t)
      <4>1. PICK d \in Termination(tmeeting[t]) : tdirty'[t] = d
        BY <3>1 DEF TaskCancelled, Goto
      <4>2. UNCHANGED status /\ tpc[t] = "cancelling" /\ status[tmeeting[t]] # "none"
        BY <3>1 DEF TaskCancelled, Goto, Ownership
      <4>3. QED
        BY <2>1, <2>5, <4>1, <4>2, TerminationIs
    <3>2. CASE TaskSettings(t)
      <4>1. tpc[t] = "terminating" /\ InsertSettings(tmeeting[t], tdirty[t]) /\ tdirty[t] \in Dirty
        BY <3>2 DEF TaskSettings, Goto
      <4>2. tdirty[t].status \in {"same", "terminated"}
        BY <4>1 DEF Sessions
      <4>3. status'[tmeeting[t]] = IF tdirty[t].status # "same" THEN tdirty[t].status
                                   ELSE status[tmeeting[t]]
        BY <2>1, <4>1, StatusWritten
      <4>4. QED
        BY <2>1, <2>5, <4>1, <4>2, <4>3
    <3>3. CASE ~ (TaskCancelled(t) \/ TaskSettings(t))
      BY <1>6, <3>3 DEF TaskStep, TaskEnter, TaskAccept, TaskRejectStatus, TaskConfigure, TaskRefuse,
           TaskRefused, TaskConclude, TaskFinish, TaskReleased, TaskDies, TaskTerminates,
           TaskUnwind, Leave, Goto
    <3>4. QED
      BY <3>1, <3>2, <3>3
  <2>9. \A s \in Socket : spc[s] = "terminating" /\ sdirty[s].status = "same" =>
           status'[smeeting[s]] \in Settled
    BY <1>0, <2>5, <2>7
  <2>10. \A u \in Task : u # t /\ tpc[u] = "terminating" /\ tdirty[u].status = "same" =>
            status'[tmeeting[u]] \in Settled
    BY <1>0, <2>3, <2>5
  <2>11. tpc'[t] = "terminating" /\ tdirty'[t].status = "same" => status'[tmeeting[t]] \in Settled
    BY <2>1, <2>5, <2>8
  <2>12. QED
    BY <2>1, <2>2, <2>9, <2>10, <2>11
<1>7. CASE Restart
  BY <1>7 DEF Restart
<1>8. CASE UNCHANGED vars
  BY <1>8
<1>9. QED
  BY <1>1, <1>2, <1>3, <1>4, <1>5, <1>6, <1>7, <1>8
     DEF OneTabNext, Next, Rest, HandlerStep, StopStep

\* A transcript is written with the outcome, and purged only from a row that is
\* terminated, or is so by the same commit.
LEMMA TranscriptInductive ==
    ASSUME TypeOK, Ownership, Sessions, LatePurge, CompletedHasTranscript, [Next]_vars
    PROVE  CompletedHasTranscript'
<1> USE DEF TypeOK, CompletedHasTranscript
<1>1. ASSUME NEW k \in Meeting, NEW st, NEW lg,
             status' = [status EXCEPT ![k] = st], log' = [log EXCEPT ![k] = lg],
             st = "completed" => lg # None
      PROVE  CompletedHasTranscript'
  BY <1>1
<1>2. ASSUME NEW m \in Meeting, CreateCheck(m) \/ CreateMeeting(m) \/ DeleteMeeting(m)
      PROVE  CompletedHasTranscript'
  BY <1>2 DEF CreateCheck, CreateMeeting, DeleteMeeting
<1>3. ASSUME NEW s \in Socket, ClientDrops(s) \/ (\E m \in Meeting : Connect(s, m))
      PROVE  CompletedHasTranscript'
  BY <1>3 DEF ClientDrops, Connect
<1>4. ASSUME NEW s \in Socket, HandlerStep(s) PROVE CompletedHasTranscript'
  <2>1. smeeting[s] \in Meeting
    BY <1>4, HandlerRow
  <2>2. PICK st \in Status, lg \in {log[smeeting[s]], None} :
           /\ HandlerWrites(s, st, lg)
           /\ \/ st = status[smeeting[s]] /\ (sdirty[s].status = "same" \/ lg = log[smeeting[s]])
              \/ spc[s] = "queueing" /\ st = "queued"
              \/ spc[s] = "terminating" /\ st = "terminated"
           /\ lg = log[smeeting[s]] \/ spc[s] = "terminating"
    BY <1>4, HandlerRow
  <2>3. st = "completed" => lg # None
    BY <2>1, <2>2 DEF LatePurge
  <2>4. QED
    BY <1>1, <2>1, <2>2, <2>3 DEF HandlerWrites
<1>5. ASSUME NEW t \in Task, TaskStep(t) PROVE CompletedHasTranscript'
  <2>1. tmeeting[t] \in Meeting
    BY <1>5, TaskMoves
  <2>2. PICK st \in Status, lg \in Task \union {None} :
           /\ TaskWrites(t, st, lg)
           /\ \/ lg = log[tmeeting[t]]
              \/ tpc[t] = "concluding" /\ lg = t
              \/ tpc[t] = "terminating" /\ lg = None
           /\ tpc[t] = "concluding" /\ st # status[tmeeting[t]] => lg = t
           /\ \/ st = status[tmeeting[t]] /\ (tdirty[t].status = "same" \/ lg = log[tmeeting[t]])
              \/ /\ tpc[t] \in {"configuring", "refusing", "concluding", "terminating"}
                 /\ st = tdirty[t].status /\ st # "same"
    BY <1>5, TaskRow
  <2>3. /\ tpc[t] = "configuring" => tdirty[t].status # "completed"
        /\ tpc[t] = "refusing" => tdirty[t].status # "completed"
        /\ tpc[t] = "terminating" => tdirty[t].status # "completed"
    BY DEF Sessions
  <2>4. st = "completed" => lg # None
    BY <2>1, <2>2, <2>3, NoneIsNew DEF LatePurge
  <2>5. QED
    BY <1>1, <2>1, <2>2, <2>4 DEF TaskWrites
<1>6. CASE Restart
  BY <1>6 DEF Restart, Reap
<1>7. CASE UNCHANGED vars
  BY <1>7
<1>8. QED
  BY <1>2, <1>3, <1>4, <1>5, <1>6, <1>7 DEF Next, Rest

\* With one tab per meeting, every reachable state satisfies TabInv besides the
\* invariants of Spec.
THEOREM OneTabInvariance == OneTabSpec => [](TypeOK /\ IInv /\ TabInv)
<1>1. OneTabSpec => Spec
  <2>1. [OneTabNext]_vars => [Next]_vars
    BY DEF OneTabNext
  <2>2. QED
    BY <2>1, PTL DEF OneTabSpec, Spec
<1>2. Init => TabInv
  BY DEF Init, TabInv, OneHandler, Registered, Held, Stopped, LatePurge, CompletedHasTranscript,
     Open, Drives
<1>3. TypeOK /\ IInv /\ TabInv /\ [OneTabNext]_vars => TabInv'
  <2>1. [OneTabNext]_vars => [Next]_vars
    BY DEF OneTabNext
  <2>2. QED
    BY <2>1, OneHandlerInductive, RegisteredInductive, HeldInductive, StoppedInductive,
       LatePurgeInductive, TranscriptInductive DEF TabInv, IInv
<1>4. QED
  BY <1>1, <1>2, <1>3, Invariance, PTL DEF OneTabSpec

\* With one tab per meeting, no two tasks execute the same meeting: the entry
\* start_meeting checks is enough although the check and the registration are
\* two awaits apart.
THEOREM OneTask == OneTabSpec => []OneTaskPerMeeting
<1>1. TabInv => OneTaskPerMeeting
  BY OneLiveTask DEF TabInv
<1>2. QED
  BY <1>1, OneTabInvariance, PTL

\* With one tab per meeting, a completed meeting has its transcript: the stop
\* that commits only its purge finds the row as terminated as it read it.
THEOREM CompletedKeepsTranscript == OneTabSpec => []CompletedHasTranscript
<1>1. TabInv => CompletedHasTranscript
  BY DEF TabInv
<1>2. QED
  BY <1>1, OneTabInvariance, PTL

\* With one tab per meeting, a stop is final: no task still winding down puts
\* "running" or an outcome over the "terminated" that stop_meeting wrote.
THEOREM StopHolds == OneTabSpec => StopIsFinal
<1> DEFINE Final == \A m \in Meeting : status[m] = "terminated" =>
                       status'[m] \in {"terminated", "queued", "deleted"}
<1>1. TypeOK /\ IInv /\ TabInv /\ [OneTabNext]_vars => [Final]_vars
  <2> SUFFICES ASSUME TypeOK, Ownership, Sessions, Stopped, Next PROVE Final
    BY DEF IInv, TabInv, OneTabNext
  <2> USE DEF TypeOK
  <2>1. ASSUME NEW m \in Meeting, CreateCheck(m) \/ CreateMeeting(m) \/ DeleteMeeting(m)
        PROVE  Final
    BY <2>1 DEF CreateCheck, CreateMeeting, DeleteMeeting, Ownership
  <2>2. ASSUME NEW s \in Socket, ClientDrops(s) \/ (\E m \in Meeting : Connect(s, m))
        PROVE  Final
    BY <2>2 DEF Connect, ClientDrops
  <2>3. ASSUME NEW s \in Socket, HandlerStep(s) PROVE Final
    <3>1. PICK st \in Status, lg \in {log[smeeting[s]], None} :
             /\ HandlerWrites(s, st, lg)
             /\ st = status[smeeting[s]] \/ st \in {"queued", "terminated"}
      BY <2>3, HandlerRow
    <3>2. QED
      BY <3>1 DEF HandlerWrites
  <2>4. ASSUME NEW t \in Task, TaskStep(t) PROVE Final
    <3>1. tmeeting[t] \in Meeting
      BY <2>4, TaskMoves
    <3>2. PICK st \in Status, lg \in Task \union {None} :
             /\ TaskWrites(t, st, lg)
             /\ \/ st = status[tmeeting[t]]
                \/ /\ tpc[t] \in {"configuring", "refusing", "concluding", "terminating"}
                   /\ st = tdirty[t].status /\ st # "same"
      BY <2>4, TaskRow
    <3>3. status[tmeeting[t]] = "terminated" => st = "terminated"
      BY <3>2 DEF Stopped, Sessions
    <3>4. QED
      BY <3>1, <3>2, <3>3 DEF TaskWrites
  <2>5. CASE Restart
    BY <2>5 DEF Restart, Reap
  <2>6. QED
    BY <2>1, <2>2, <2>3, <2>4, <2>5 DEF Next, Rest
<1>2. QED
  BY <1>1, OneTabInvariance, PTL DEF OneTabSpec, StopIsFinal
-----------------------------------------------------------------------------
(***************************************************************************)
(* The runs of a meeting, as the other modules about it see them.          *)
(***************************************************************************)
\* A run begins when its stream does, and it is then the only live task of its
\* meeting; no other step takes a task back to a phase it left.
LEMMA TurnsStep ==
    ASSUME TypeOK, Ownership, OneTaskPerMeeting, [Next]_vars
    PROVE  [Turns!TurnsNext]_(Turns!turnVars)
<1> DEFINE phase == [t \in Task |-> PhaseOf(tpc[t])]
<1> USE DEF TypeOK
<1>0. tmeeting \in [Task -> Meeting \union {None}]
  OBVIOUS
<1>1. ASSUME UNCHANGED tmeeting, NEW t \in Task, NEW p, tpc' = [tpc EXCEPT ![t] = p],
             PhaseOf(p) \in {PhaseOf(tpc[t]), "over"}
      PROVE  [Turns!TurnsNext]_(Turns!turnVars)
  <2>1. CASE PhaseOf(p) = PhaseOf(tpc[t])
    <3>1. phase' = phase
      BY <1>1, <2>1
    <3>2. QED
      BY <1>1, <3>1 DEF Turns!turnVars
  <2>2. CASE PhaseOf(p) = "over"
    <3>1. phase' = [u \in Task |-> IF u \in {t} THEN "over" ELSE phase[u]]
      BY <1>1, <2>2
    <3>2. Turns!End({t})
      BY <1>1, <3>1 DEF Turns!End
    <3>3. QED
      BY <3>2 DEF Turns!TurnsNext
  <2>3. QED
    BY <1>1, <2>1, <2>2
<1>2. ASSUME UNCHANGED <<tpc, tmeeting>> PROVE UNCHANGED Turns!turnVars
  BY <1>2 DEF Turns!turnVars
<1>3. ASSUME NEW m \in Meeting, CreateCheck(m) \/ CreateMeeting(m) \/ DeleteMeeting(m)
      PROVE  UNCHANGED Turns!turnVars
  BY <1>2, <1>3 DEF CreateCheck, CreateMeeting, DeleteMeeting
<1>4. ASSUME NEW s \in Socket,
             \/ \E m \in Meeting : Connect(s, m)
             \/ ClientDrops(s) \/ StartCheck(s) \/ StartRead(s) \/ StopStep(s)
      PROVE  UNCHANGED Turns!turnVars
  BY <1>2, <1>4 DEF Connect, ClientDrops, StartCheck, StartRead, StopStep, StopRead,
       StopSettings, StopCommit, HandlerDies
<1>5. ASSUME NEW s \in Socket, NEW t \in Task, StartCommit(s, t) PROVE Turns!TurnsNext
  <2>1. /\ smeeting[s] \in Meeting /\ tpc[t] = "unborn"
        /\ tpc' = [tpc EXCEPT ![t] = "created"]
        /\ tmeeting' = [tmeeting EXCEPT ![t] = smeeting[s]]
    BY <1>5 DEF StartCommit, HandlerGoto, Ownership
  <2>2. phase' = phase /\ phase[t] = "idle"
    BY <2>1 DEF PhaseOf
  <2>3. Turns!Assign(t, smeeting[s])
    BY <2>1, <2>2 DEF Turns!Assign
  <2>4. QED
    BY <2>1, <2>3 DEF Turns!TurnsNext
<1>6. ASSUME NEW s \in Socket, StopCommand(s) \/ Disconnect(s)
      PROVE  [Turns!TurnsNext]_(Turns!turnVars)
  <2>1. CancelOwn(s) /\ UNCHANGED tmeeting
    BY <1>6 DEF StopCommand, Disconnect
  <2>2. CASE own[s] \in Task
    <3>1. tpc' = [tpc EXCEPT ![own[s]] = Cancelled(tpc[own[s]])]
      BY <2>1, <2>2 DEF CancelOwn
    <3>2. PhaseOf(Cancelled(tpc[own[s]])) \in {PhaseOf(tpc[own[s]]), "over"}
      BY <2>2 DEF Cancelled, PhaseOf
    <3>3. QED
      BY <1>1, <2>1, <2>2, <3>1, <3>2
  <2>3. CASE own[s] \notin Task
    BY <1>2, <2>1, <2>3 DEF CancelOwn
  <2>4. QED
    BY <2>2, <2>3
<1>7. ASSUME NEW t \in Task, TaskStep(t) PROVE [Turns!TurnsNext]_(Turns!turnVars)
  <2>0. UNCHANGED tmeeting
    BY <1>7, TaskMoves
  <2>1. CASE TaskConfigure(t)
    <3>1. tpc[t] = "configuring" /\ tpc' = [tpc EXCEPT ![t] = "streaming"]
      BY <2>1 DEF TaskConfigure, Goto
    <3>2. \A u \in Task : phase[u] = "active" => tmeeting[u] # tmeeting[t]
      BY <3>1 DEF OneTaskPerMeeting, PhaseOf
    <3>3. phase' = [phase EXCEPT ![t] = "active"] /\ phase[t] = "idle"
      BY <3>1 DEF PhaseOf
    <3>4. Turns!Begin(t)
      BY <2>0, <3>2, <3>3 DEF Turns!Begin
    <3>5. QED
      BY <3>4 DEF Turns!TurnsNext
  <2>2. CASE \/ TaskEnter(t) \/ TaskAccept(t) \/ TaskRefuse(t) \/ TaskConclude(t) \/ TaskFinish(t)
             \/ TaskCancelled(t) \/ TaskSettings(t)
    <3>1. \E p : tpc' = [tpc EXCEPT ![t] = p] /\ PhaseOf(p) = PhaseOf(tpc[t])
      BY <2>2 DEF TaskEnter, TaskAccept, TaskRefuse, TaskConclude, TaskFinish, TaskCancelled,
           TaskSettings, Goto, PhaseOf
    <3>2. QED
      BY <1>1, <2>0, <3>1
  <2>3. CASE TaskLeaves(t)
    <3>1. \E how \in {"done", "died"} : tpc' = [tpc EXCEPT ![t] = how]
      BY <2>3 DEF TaskLeaves, Leave
    <3>2. \A how \in {"done", "died"} : PhaseOf(how) = "over"
      BY DEF PhaseOf
    <3>3. QED
      BY <1>1, <2>0, <3>1, <3>2
  <2>4. CASE \/ TaskRejectStatus(t) \/ TaskRefused(t) \/ TaskReleased(t) \/ TaskDies(t)
             \/ TaskTerminates(t) \/ TaskUnwind(t)
    BY <2>3, <2>4 DEF TaskRejectStatus, TaskRefused, TaskReleased, TaskDies, TaskTerminates,
         TaskUnwind, TaskLeaves
  <2>5. QED
    BY <1>7, <2>1, <2>2, <2>4 DEF TaskStep
<1>8. CASE Restart
  <2>1. phase' = [t \in Task |-> IF t \in {u \in Task : tpc[u] \in Live}
                                 THEN "over" ELSE phase[t]]
    BY <1>8 DEF Restart, PhaseOf
  <2>2. QED
    BY <1>8, <2>1 DEF Restart, Turns!TurnsNext, Turns!End
<1>9. CASE UNCHANGED vars
  BY <1>2, <1>9
<1>10. QED
  BY <1>3, <1>4, <1>5, <1>6, <1>7, <1>8, <1>9 DEF Next, Rest, HandlerStep

\* With one tab per meeting, the runs of each meeting take turns.
THEOREM OneTabGivesTurns == OneTabSpec => RunsTakeTurns
<1>1. Init => Turns!TurnsInit
  BY DEF Init, Turns!TurnsInit, PhaseOf
<1>2. TypeOK /\ IInv /\ OneTaskPerMeeting /\ [OneTabNext]_vars
        => [Turns!TurnsNext]_(Turns!turnVars)
  <2>1. [OneTabNext]_vars => [Next]_vars
    BY DEF OneTabNext
  <2>2. QED
    BY <2>1, TurnsStep DEF IInv
<1>3. QED
  BY <1>1, <1>2, OneTabInvariance, OneTask, PTL
     DEF OneTabSpec, RunsTakeTurns, Turns!TurnsSpec
=============================================================================
