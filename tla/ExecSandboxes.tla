--------------------------- MODULE ExecSandboxes ---------------------------
(***************************************************************************)
(* Code execution: the tool run_python_analysis in a persona's sandbox     *)
(* (runtime/tools/code_exec.py) claims a sandbox of a second tier, asks    *)
(* the backend for a token to it (api/routes/internal.py), posts one job   *)
(* to its job server (exec-python/server.py), gives the claim back and     *)
(* stores what the job produced.                                           *)
(*                                                                         *)
(* A call makes at most one claim, under a name of its own, so a claim is  *)
(* named by its call.  A sandbox has a name, which a later sandbox may get *)
(* again, and a UID, which none does.  Time is counted in ticks of 30      *)
(* seconds.  The apiserver, the controller that satisfies and expires      *)
(* claims, and the router are external.                                    *)
(***************************************************************************)
EXTENDS Profiles, FiniteSets

CONSTANTS
    Call,         \* executions of the tool
    Caller,       \* persona sandboxes
    DefaultTools, \* the tools each caller's persona asks for
    RoleBinding,  \* callers the apiserver lets create an exec claim
    Name,         \* names of sandboxes of the exec tier
    ExecTimeout,  \* SANDBOX_EXEC_TIMEOUT, in ticks
    MaxWall,      \* MAX_WALL_SECONDS of the job server, in ticks
    MaxFiles,     \* bound on the files a job leaves
    MaxUid,       \* bound on the sandboxes the tier ever makes
    None

ASSUME NoneNew == None \notin Name \union Call \union Caller
ASSUME TimesPositive == ExecTimeout \in Nat /\ MaxWall \in Nat \ {0}
ASSUME ExecBounds == MaxFiles \in Nat /\ MaxUid \in Nat

\* The client gives up 30 seconds after the timeout, the controller deletes the
\* claim 60 seconds after it.
ClientTimeout == ExecTimeout + 1

\* Mutation: the claim ends when the job may.
DeadlineIsTimeout == ExecTimeout
Deadline == ExecTimeout + 2

VARIABLES
    caller,  \* whose call it is
    pc,      \* where each call is
    answer,  \* what the tool answered, or "cut" once its turn was cancelled
    claim,   \* the claim object of each call
    age,     \* ticks since it was created
    at,      \* the sandbox the claim's status names
    box,     \* box[n]: the sandbox called n, its UID and the claim it is for
    uids,    \* UIDs given out so far
    target,  \* the sandbox name exec_token read off the claim
    token,   \* the UID the call's token names
    job,     \* the job of each call: its sandbox's UID, its ticks, and the age
             \* of the claim when it was posted
    waited,  \* ticks the client has waited for the response
    files,   \* files the job produced
    written, \* artifacts stored so far
    left,    \* calls that ended without giving a claim back
    crossed  \* history: calls whose token was read off another claim's sandbox

tier  == <<claim, age, at, box, uids>>
route == <<target, token>>
work  == <<job, waited, files, written>>
past  == <<left, crossed>>
vars  == <<caller, pc, answer, tier, route, work, past>>

Gone == [uid |-> 0, of |-> None]
NoJob == [uid |-> 0, clock |-> 0, posted |-> 0]
Live == {"pending", "bound"}

\* _build_tools: the tools the profile grants, as far as this image knows them.
Offered(a) == build_tools(GrantedTools(DefaultTools[a]))

Init ==
    /\ caller = [c \in Call |-> None]
    /\ pc = [c \in Call |-> "idle"]
    /\ answer = [c \in Call |-> "none"]
    /\ claim = [c \in Call |-> "none"]
    /\ age = [c \in Call |-> 0]
    /\ at = [c \in Call |-> None]
    /\ box = [n \in Name |-> Gone]
    /\ uids = 0
    /\ target = [c \in Call |-> None]
    /\ token = [c \in Call |-> 0]
    /\ job = [c \in Call |-> NoJob]
    /\ waited = [c \in Call |-> 0]
    /\ files = [c \in Call |-> 0]
    /\ written = [c \in Call |-> 0]
    /\ left = {}
    /\ crossed = {}

Goto(c, from, to) ==
    /\ pc[c] = from
    /\ pc' = [pc EXCEPT ![c] = to]

Answers(c, a) == answer' = [answer EXCEPT ![c] = a]

\* Only the deadline ends the claims that calls of C hold.
Leave(C) == left' = left \union {c \in C : claim[c] \in Live}

\* _run_in_sandbox returns or raises: the finally clause releases.
Return(c, from, a) ==
    /\ Goto(c, from, "releasing")
    /\ Answers(c, a)
    /\ target' = [target EXCEPT ![c] = None]
    /\ token' = [token EXCEPT ![c] = 0]
    /\ waited' = [waited EXCEPT ![c] = 0]

\* The sandbox called n goes away, and the jobs in it with it.
Tear(n) ==
    /\ box' = [box EXCEPT ![n] = Gone]
    /\ job' = [c \in Call |-> IF job[c].uid = box[n].uid THEN NoJob ELSE job[c]]
-----------------------------------------------------------------------------
(***************************************************************************)
(* The claim.  The SDK call runs in a thread and waits for the sandbox.    *)
(***************************************************************************)
Begin(c, a) ==
    /\ Goto(c, "idle", "claiming")
    /\ PYTHON \in Offered(a)
    /\ caller' = [caller EXCEPT ![c] = a]
    /\ UNCHANGED <<answer, tier, route, work, past>>

\* 403 from the apiserver: ExecutionDenied.
ClaimRefused(c) ==
    /\ Goto(c, "claiming", "over")
    /\ caller[c] \notin RoleBinding
    /\ Answers(c, "denied")
    /\ UNCHANGED <<tier, route, work, past>>

\* Mutation: no deadline on the claim, so the age it expires at never comes.
ClaimCreatedForGood(c) ==
    /\ Goto(c, "claiming", "waiting")
    /\ caller[c] \in RoleBinding
    /\ claim' = [claim EXCEPT ![c] = "pending"]
    /\ age' = [age EXCEPT ![c] = Deadline + 1]
    /\ UNCHANGED <<answer, at, box, uids, route, work, past>>

\* Mutation: the cluster lets anybody claim.
ClaimCreatedByAny(c) ==
    /\ Goto(c, "claiming", "waiting")
    /\ claim' = [claim EXCEPT ![c] = "pending"]
    /\ UNCHANGED <<answer, age, at, box, uids, route, work, past>>

ClaimCreated(c) ==
    /\ Goto(c, "claiming", "waiting")
    /\ caller[c] \in RoleBinding
    /\ claim' = [claim EXCEPT ![c] = "pending"]
    /\ UNCHANGED <<answer, age, at, box, uids, route, work, past>>

\* The SDK call raises, before or after it made the claim.  A message with "403"
\* or "forbidden" in it reads as a refusal, whatever it was.
ClaimFails(c) ==
    /\ pc[c] \in {"claiming", "waiting"}
    /\ pc' = [pc EXCEPT ![c] = "over"]
    /\ \E a \in {"denied", "unavailable"} : Answers(c, a)
    /\ Leave({c})
    /\ UNCHANGED <<tier, route, work, crossed>>

\* The claim has a sandbox: the call holds a handle.
Claimed(c) ==
    /\ Goto(c, "waiting", "routing")
    /\ claim[c] = "bound" /\ at[c] # None
    /\ UNCHANGED <<answer, tier, route, work, past>>
-----------------------------------------------------------------------------
(***************************************************************************)
(* The token: exec_token reads the claim, then the sandbox it names.       *)
(***************************************************************************)
\* The caller's pod was identified (its labels were found), the claim exists,
\* carries the caller's identity, and names a sandbox.
TokenClaimRead(c) ==
    /\ Goto(c, "routing", "naming")
    /\ claim[c] \in Live /\ at[c] # None
    /\ target' = [target EXCEPT ![c] = at[c]]
    /\ UNCHANGED <<answer, tier, token, work, past>>

\* 403 (no labels, no claim, or somebody else's), 409 (no sandbox yet), 503 (no
\* router), or a request that failed.
TokenRefused(c) ==
    /\ Return(c, "routing", "unavailable")
    /\ UNCHANGED <<tier, job, files, written, past>>

\* The second read is by name.  mint refuses a sandbox without a UID.
TokenMinted(c) ==
    /\ Goto(c, "naming", "posting")
    /\ box[target[c]] # Gone
    /\ token' = [token EXCEPT ![c] = box[target[c]].uid]
    /\ crossed' = IF box[target[c]].of # c THEN crossed \union {c} ELSE crossed
    /\ UNCHANGED <<answer, tier, target, work, left>>

TokenFails(c) ==
    /\ Return(c, "naming", "unavailable")
    /\ UNCHANGED <<tier, job, files, written, past>>
-----------------------------------------------------------------------------
(***************************************************************************)
(* The job.                                                                *)
(***************************************************************************)
\* A job starts in the sandbox called target[c].
Start(c) ==
    /\ Goto(c, "posting", "posted")
    /\ job' = [job EXCEPT ![c] = [uid |-> box[target[c]].uid, clock |-> 0, posted |-> age[c]]]
    /\ UNCHANGED <<answer, tier, route, waited, files, written, past>>

\* Mutation: the router goes by the sandbox's name.
PostByName(c) ==
    /\ Start(c)
    /\ box[target[c]] # Gone

\* The router lets the token through to the one sandbox it names; the job server
\* clears its output directory and starts the runner.
Post(c) ==
    /\ Start(c)
    /\ box[target[c]].uid = token[c]

\* Nothing to connect to, or the router refuses the token.
PostFails(c) ==
    /\ Return(c, "posting", "unavailable")
    /\ UNCHANGED <<tier, job, files, written, past>>

\* The runner finished and the server answers with its result and files, or with
\* an error: the snippet raised, left no result, or ran into the server's limit.
JobEnds(c) ==
    /\ pc[c] = "posted" /\ job[c] # NoJob
    /\ \E ok \in BOOLEAN, f \in 0..MaxFiles :
         /\ ok => job[c].clock < MaxWall
         /\ ~ ok => f = 0
         /\ Return(c, "posted", IF ok THEN "ok" ELSE "failed")
         /\ files' = [files EXCEPT ![c] = f]
    /\ job' = [job EXCEPT ![c] = NoJob]
    /\ UNCHANGED <<tier, written, past>>

\* It finished, and nobody reads the answer.
JobEndsUnread(c) ==
    /\ pc[c] # "posted" /\ job[c] # NoJob
    /\ job' = [job EXCEPT ![c] = NoJob]
    /\ UNCHANGED <<pc, answer, tier, route, waited, files, written, past>>

\* No response: the server's handler raised, or the connection went with the
\* sandbox.
JobBreaks(c) ==
    /\ Return(c, "posted", "unavailable")
    /\ job' = [job EXCEPT ![c] = NoJob]
    /\ UNCHANGED <<tier, files, written, past>>

\* Mutation: a client without a timeout.
ClientWaits(c) ==
    /\ FALSE
    /\ Return(c, "posted", "unavailable")
    /\ UNCHANGED <<tier, job, files, written, past>>

\* The client's own timeout; a job that still runs goes on.
ClientGivesUp(c) ==
    /\ waited[c] = ClientTimeout
    /\ Return(c, "posted", "unavailable")
    /\ UNCHANGED <<tier, job, files, written, past>>
-----------------------------------------------------------------------------
(***************************************************************************)
(* Release, artifacts, answer.                                             *)
(***************************************************************************)
\* Where a call goes once it has released.
After(c) == IF answer[c] = "ok" THEN "writing" ELSE "over"

\* Mutation: the claim is given back only after a result.
ReleaseOnSuccess(c) ==
    /\ Goto(c, "releasing", After(c))
    /\ claim' = [claim EXCEPT ![c] = IF @ \in Live /\ answer[c] = "ok" THEN "deleting" ELSE @]
    /\ UNCHANGED <<answer, age, at, box, uids, route, work, past>>

Release(c) ==
    /\ Goto(c, "releasing", After(c))
    /\ claim' = [claim EXCEPT ![c] = IF @ \in Live THEN "deleting" ELSE @]
    /\ UNCHANGED <<answer, age, at, box, uids, route, work, past>>

\* The delete raised, or was cancelled before its thread began; only logged.
ReleaseFails(c) ==
    /\ Goto(c, "releasing", After(c))
    /\ Leave({c})
    /\ UNCHANGED <<answer, tier, route, work, crossed>>

\* One artifact per file, in the backend's own commits.
WriteArtifact(c) ==
    /\ pc[c] = "writing"
    /\ written[c] < files[c]
    /\ written' = [written EXCEPT ![c] = @ + 1]
    /\ UNCHANGED <<pc, answer, tier, route, job, waited, files, past>>

\* Mutation: an artifact that was not stored is passed over.
WriterSkips(c) ==
    /\ Goto(c, "writing", "over")
    /\ written[c] < files[c]
    /\ UNCHANGED <<answer, tier, route, work, past>>

\* artifact_writer is outside the try: what it raises leaves the tool.
WriterFails(c) ==
    /\ Goto(c, "writing", "over")
    /\ written[c] < files[c]
    /\ Answers(c, "raised")
    /\ UNCHANGED <<tier, route, work, past>>

Finish(c) ==
    /\ Goto(c, "writing", "over")
    /\ written[c] = files[c]
    /\ UNCHANGED <<answer, tier, route, work, past>>
-----------------------------------------------------------------------------
(***************************************************************************)
(* A turn that is cut, and a persona's pod that is evicted.                *)
(***************************************************************************)
\* The cancellation runs the finally clause of a call that holds a handle, and
\* the thread that releases goes on.  So does the thread of a call that is still
\* claiming, without the call.
Cancel(c) ==
    /\ answer[c] # "cut"
    /\ \/ /\ pc[c] \in {"routing", "naming", "posting", "posted", "releasing"}
          /\ Return(c, pc[c], "cut")
       \/ /\ pc[c] \in {"claiming", "waiting", "writing"}
          /\ Goto(c, pc[c], IF pc[c] = "claiming" THEN "orphaning" ELSE "over")
          /\ Answers(c, "cut")
          /\ UNCHANGED <<route, waited>>
    /\ Leave({c} \intersect {d \in Call : pc[d] = "waiting"})
    /\ UNCHANGED <<tier, job, files, written, crossed>>

\* The thread ends, with a claim nobody holds or without one.
Orphan(c) ==
    /\ Goto(c, "orphaning", "over")
    /\ \/ /\ caller[c] \in RoleBinding
          /\ claim' = [claim EXCEPT ![c] = "pending"]
          /\ left' = left \union {c}
       \/ UNCHANGED <<claim, left>>
    /\ UNCHANGED <<answer, age, at, box, uids, route, work, crossed>>

\* "a persona that is evicted mid-job never gets to" release.
Evict(a) ==
    LET mid == {c \in Call : caller[c] = a /\ pc[c] \notin {"idle", "over"}}
        Lost(f, none) == [c \in Call |-> IF c \in mid THEN none ELSE f[c]] IN
    /\ mid # {}
    /\ pc' = Lost(pc, "over")
    /\ answer' = Lost(answer, "cut")
    /\ target' = Lost(target, None)
    /\ token' = Lost(token, 0)
    /\ waited' = Lost(waited, 0)
    /\ Leave(mid)
    /\ UNCHANGED <<tier, job, files, written, crossed>>
-----------------------------------------------------------------------------
(***************************************************************************)
(* The exec tier (external).                                               *)
(***************************************************************************)
\* The controller gives a claim a sandbox, a new one after it lost one.
Adopt(c, n) ==
    /\ claim[c] = "pending" /\ box[n] = Gone /\ uids < MaxUid
    /\ uids' = uids + 1
    /\ box' = [box EXCEPT ![n] = [uid |-> uids + 1, of |-> c]]
    /\ at' = [at EXCEPT ![c] = n]
    /\ claim' = [claim EXCEPT ![c] = "bound"]
    /\ UNCHANGED <<pc, answer, age, route, work, past>>

Lose(c) ==
    /\ claim[c] = "bound"
    /\ Tear(at[c])
    /\ at' = [at EXCEPT ![c] = None]
    /\ claim' = [claim EXCEPT ![c] = "pending"]
    /\ UNCHANGED <<pc, answer, age, uids, route, waited, files, written, past>>

\* A claim that is being deleted goes, and its sandbox with it.
Collect(c) ==
    /\ claim[c] = "deleting"
    /\ claim' = [claim EXCEPT ![c] = "gone"]
    /\ age' = [age EXCEPT ![c] = 0]
    /\ IF at[c] # None THEN Tear(at[c]) ELSE UNCHANGED <<box, job>>
    /\ at' = [at EXCEPT ![c] = None]
    /\ UNCHANGED <<pc, answer, uids, route, waited, files, written, past>>

\* The controller's deadline: no earlier, possibly later.
Expire(c) ==
    /\ claim[c] \in Live /\ age[c] = Deadline
    /\ claim' = [claim EXCEPT ![c] = "deleting"]
    /\ left' = left \ {c}
    /\ UNCHANGED <<pc, answer, age, at, box, uids, route, work, crossed>>

\* A tick passes; a client at its limit and a job at its own act first.
Tick ==
    /\ \A c \in Call : waited[c] < ClientTimeout /\ job[c].clock < MaxWall
    /\ age' = [c \in Call |-> IF claim[c] \in Live /\ age[c] < Deadline
                              THEN age[c] + 1 ELSE age[c]]
    /\ waited' = [c \in Call |-> IF pc[c] = "posted" THEN waited[c] + 1 ELSE waited[c]]
    /\ job' = [c \in Call |-> IF job[c] = NoJob THEN NoJob ELSE [job[c] EXCEPT !.clock = @ + 1]]
    /\ <<age, waited, job>>' # <<age, waited, job>>
    /\ UNCHANGED <<pc, answer, claim, at, box, uids, route, files, written, past>>
-----------------------------------------------------------------------------
\* The steps a call, its thread, its job or its client's timeout takes by itself;
\* that a lost connection is noticed is not among them.
CallStep(c) ==
    \/ ClaimRefused(c) \/ ClaimCreated(c) \/ ClaimFails(c) \/ Claimed(c)
    \/ TokenClaimRead(c) \/ TokenRefused(c) \/ TokenMinted(c) \/ TokenFails(c)
    \/ Post(c) \/ PostFails(c) \/ JobEnds(c) \/ JobEndsUnread(c) \/ ClientGivesUp(c)
    \/ Release(c) \/ ReleaseFails(c) \/ WriteArtifact(c) \/ WriterFails(c) \/ Finish(c)
    \/ Orphan(c)

Cluster(c) == Lose(c) \/ Collect(c) \/ Expire(c) \/ \E n \in Name : Adopt(c, n)

Next ==
    \/ \E c \in Call, a \in Caller : Begin(c, a)
    \/ /\ \/ \E c \in Call : CallStep(c) \/ JobBreaks(c) \/ Cancel(c) \/ Cluster(c)
          \/ \E a \in Caller : Evict(a)
          \/ Tick
       /\ UNCHANGED caller

Spec == Init /\ [][Next]_vars

\* Calls and job servers run, the controller holds its deadlines, time passes.
\* Each of these is done a bounded number of times, so it is enough that one of
\* them happens while one of them can.
Progress == (\E c \in Call : CallStep(c) \/ Expire(c) \/ Collect(c)) \/ Tick

Fairness == WF_vars(Progress /\ UNCHANGED caller)

FairSpec == Spec /\ Fairness
-----------------------------------------------------------------------------
Steps == {"idle", "claiming", "waiting", "orphaning", "routing", "naming", "posting",
          "posted", "releasing", "writing", "over"}
Answer == {"none", "denied", "unavailable", "ok", "failed", "raised", "cut"}

\* The values the variables take.
TypeOK ==
    /\ caller \in [Call -> Caller \union {None}]
    /\ pc \in [Call -> Steps]
    /\ answer \in [Call -> Answer]
    /\ claim \in [Call -> {"none", "pending", "bound", "deleting", "gone"}]
    /\ age \in [Call -> 0..Deadline]
    /\ at \in [Call -> Name \union {None}]
    /\ box \in [Name -> [uid : 0..MaxUid, of : Call \union {None}]]
    /\ uids \in 0..MaxUid
    /\ target \in [Call -> Name \union {None}]
    /\ token \in [Call -> 0..MaxUid]
    /\ job \in [Call -> [uid : 0..MaxUid, clock : 0..MaxWall, posted : 0..Deadline]]
    /\ waited \in [Call -> 0..ClientTimeout]
    /\ files \in [Call -> 0..MaxFiles] /\ written \in [Call -> 0..MaxFiles]
    /\ left \subseteq Call /\ crossed \subseteq Call

\* A job runs in the sandbox made for its own claim (code_exec.py:22-24, "the
\* sandbox it claimed and ... nobody else's"), whatever became of that name since
\* the claim was read: the token names a UID.  The one exception is a name that
\* changed hands between exec_token's two reads.
JobInOwnSandbox ==
    \A c \in Call, n \in Name :
        job[c] # NoJob /\ job[c].uid = box[n].uid => box[n].of = c \/ c \in crossed

\* When the tool has ended, whatever way it did, its claim is on its way out (the
\* finally clause of run_python_analysis), or was left to the deadline: the
\* release failed, the SDK gave up on it, its turn was cut, or the pod evicted.
EndedReleased == \A c \in Call : pc[c] = "over" /\ claim[c] \in Live => c \in left

\* Code runs only for a persona whose tools ask for it and whose account the
\* cluster lets claim: neither the capability file nor the Role is enough alone.
OnlyGrantedRun ==
    \A c \in Call : job[c] # NoJob =>
        /\ caller[c] \in RoleBinding
        /\ resolve(DefaultTools[caller[c]]).can_execute_code

\* An answer without an error names every file the job produced
\* (code_exec.py:108-116): a store that fails shows.
OkMeansAllWritten ==
    \A c \in Call : pc[c] = "over" /\ answer[c] = "ok" => written[c] = files[c]

\* A job posted early enough has its full time: one whose claim expires under it,
\* its client still waiting, was posted less than the server's limit before the
\* deadline of EXEC_TIMEOUT_SECONDS + 60.
PromptJobsSpared ==
    \A c \in Call : pc[c] = "posted" /\ job[c] # NoJob /\ claim[c] = "deleting"
        => job[c].posted + MaxWall >= ExecTimeout + 2

\* Every claim ends, its caller evicted or not (code_exec.py:152-155): "nothing
\* else knows the claim exists".
ClaimsEnd == \A c \in Call : claim[c] \in Live ~> claim[c] = "gone"

\* Every call ends, whatever becomes of its sandbox.
CallsEnd == \A c \in Call : pc[c] # "idle" ~> pc[c] = "over"

(***************************************************************************)
(* Refinement: the calls, without how their code gets run.                 *)
(***************************************************************************)
StageOf(p) == IF p = "idle" THEN "idle" ELSE IF p = "over" THEN "closed" ELSE "open"

\* Where a call can post no job any more.
Spent == {"orphaning", "posted", "releasing", "writing", "over"}

\* The tool asked for and the Role.
MayRun == {a \in RoleBinding : resolve(DefaultTools[a]).can_execute_code}

Calls == INSTANCE CodeCalls WITH
    Granted <- MayRun,
    stage <- [c \in Call |-> StageOf(pc[c])],
    who <- caller,
    spent <- {c \in Call : pc[c] \in Spent},
    running <- {c \in Call : job[c] # NoJob},
    produced <- files,
    stored <- written

\* Whatever is refused, lost, cut or evicted, and however late, the tool keeps
\* what it promises of a call.
RefinesCalls == Calls!CallsSpec
=============================================================================
