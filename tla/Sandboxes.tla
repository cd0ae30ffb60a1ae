----------------------------- MODULE Sandboxes -----------------------------
(***************************************************************************)
(* The sandboxes of one meeting: the lease table of SandboxManager         *)
(* (sandbox/manager.py), the agent node that takes a turn in a leased      *)
(* sandbox and retries it once (orchestration/agents.py), the release at   *)
(* the end of a run (services/meeting_executor.py) and the startup sweep   *)
(* (sandbox/reaper.py).                                                    *)
(*                                                                         *)
(* A run is one execution of the meeting; its turns are sequential, but    *)
(* two runs can overlap (see Meetings!OneTaskPerMeeting).  SDK calls run   *)
(* in threads: cancelling the run that waits for one does not stop it.     *)
(* The cluster (external) keeps a claim object, a pod to satisfy it, and   *)
(* deletes the claim at the end of its maximum lifetime.                   *)
(***************************************************************************)
EXTENDS Naturals, FiniteSets

CONSTANTS
    Agent,        \* the attendees
    Run,          \* executions of the meeting
    Claim,        \* the claims there can be at one time: the cluster's capacity
    MaxRestarts,  \* bound on backend restarts
    None

ASSUME NoneIsNew == None \notin Agent \union Claim \union Run
ASSUME RestartsBounded == MaxRestarts \in Nat

VARIABLES
    lease,     \* lease[a]: the claim leased for a, or None
    bound,     \* bound[a]: the lease's bound flag
    lock,      \* the run holding the manager's lock, or None
    cstate,    \* the claim object: "free" (there is none), "making" or "held"
    label,     \* the agent the claim's pod is labelled with
    pods,      \* claims whose pod is up
    persona,   \* the persona bound into the pod
    deleting,  \* claims a thread is deleting
    rpc,       \* where each run is
    speaker,   \* the agent whose turn it is
    handle,    \* the claim the turn goes to
    tries,     \* the attempt the turn is at
    waits,     \* the deletions a run waits for
    excused,   \* history: claims that a failed or abandoned SDK call left behind
    lost,      \* history: claims whose pod was lost at least once
    restarts

table == <<lease, bound>>
cloud == <<cstate, label, pods, persona>>
runs  == <<rpc, speaker, handle, tries, waits>>
hist  == <<excused, lost, restarts>>
vars  == <<table, lock, cloud, deleting, runs, hist>>

InTurn == {"waiting", "claiming", "binding", "speaking", "invalidating"}
Active == InTurn \union {"routing", "releasing"}
ClaimState == {"free", "making", "held"}

Leased == {lease[a] : a \in Agent} \ {None}

Init ==
    /\ lease = [a \in Agent |-> None]
    /\ bound = [a \in Agent |-> FALSE]
    /\ lock = None
    /\ cstate = [c \in Claim |-> "free"]
    /\ label = [c \in Claim |-> None]
    /\ pods = {}
    /\ persona = [c \in Claim |-> None]
    /\ deleting = {}
    /\ rpc = [r \in Run |-> "idle"]
    /\ speaker = [r \in Run |-> None]
    /\ handle = [r \in Run |-> None]
    /\ tries = [r \in Run |-> 0]
    /\ waits = [r \in Run |-> {}]
    /\ excused = {}
    /\ lost = {}
    /\ restarts = 0
-----------------------------------------------------------------------------
(***************************************************************************)
(* A run and its turns.                                                    *)
(***************************************************************************)
Goto(r, from, to) ==
    /\ rpc[r] = from
    /\ rpc' = [rpc EXCEPT ![r] = to]

BeginRun(r) ==
    /\ Goto(r, "idle", "routing")
    /\ UNCHANGED <<table, lock, cloud, deleting, speaker, handle, tries, waits, hist>>

\* Mutation: the lease table is keyed by meeting alone.
AcquireAny(r, a) ==
    \/ \E b \in Agent :
         /\ lease[b] # None
         /\ handle' = [handle EXCEPT ![r] = lease[b]]
         /\ rpc' = [rpc EXCEPT ![r] = IF bound[a] THEN "speaking" ELSE "binding"]
    \/ /\ \A b \in Agent : lease[b] = None
       /\ rpc' = [rpc EXCEPT ![r] = "waiting"]
       /\ UNCHANGED handle

\* Mutation: a sandbox per turn.
AcquireAfresh(r, a) ==
    /\ rpc' = [rpc EXCEPT ![r] = "waiting"]
    /\ UNCHANGED handle

\* acquire, up to its lock: the lease table is read before the lock is taken and
\* not again after.  An existing lease is returned as it is, and bound first
\* unless it is marked bound.
Acquire(r, a) ==
    \/ /\ lease[a] # None
       /\ handle' = [handle EXCEPT ![r] = lease[a]]
       /\ rpc' = [rpc EXCEPT ![r] = IF bound[a] THEN "speaking" ELSE "binding"]
    \/ /\ lease[a] = None
       /\ rpc' = [rpc EXCEPT ![r] = "waiting"]
       /\ UNCHANGED handle

BeginTurn(r, a) ==
    /\ rpc[r] = "routing"
    /\ speaker' = [speaker EXCEPT ![r] = a]
    /\ tries' = [tries EXCEPT ![r] = 0]
    /\ Acquire(r, a)
    /\ UNCHANGED <<table, lock, cloud, deleting, waits, hist>>

\* A claim's name is never used twice: a new claim is one that nothing the
\* program still looks at refers to.
Fresh(r) ==
    {c \in Claim :
       /\ cstate[c] = "free"
       /\ c \notin Leased \union deleting
       /\ \A q \in Run \ {r} :
            /\ rpc[q] \in {"claiming", "binding", "speaking"} => handle[q] # c
            /\ rpc[q] \in {"invalidating", "releasing"} => c \notin waits[q]}

\* The SDK call starts in a thread, inside the lock.
StartClaim(r, c) ==
    /\ Goto(r, "waiting", "claiming")
    /\ lock = None
    /\ c \in Fresh(r)
    /\ lock' = r
    /\ handle' = [handle EXCEPT ![r] = c]
    /\ cstate' = [cstate EXCEPT ![c] = "making"]
    /\ label' = [label EXCEPT ![c] = speaker[r]]
    /\ excused' = excused \ {c}
    /\ lost' = lost \ {c}
    /\ UNCHANGED <<table, pods, persona, deleting, speaker, tries, waits, restarts>>

\* The claim was made: its lease replaces whatever the table holds by now.
Claimed(r) ==
    LET c == handle[r]  a == speaker[r] IN
    /\ Goto(r, "claiming", "binding")
    /\ cstate' = [cstate EXCEPT ![c] = "held"]
    /\ pods' = pods \union {c}
    /\ lease' = [lease EXCEPT ![a] = c]
    /\ bound' = [bound EXCEPT ![a] = FALSE]
    /\ lock' = None
    /\ UNCHANGED <<label, persona, deleting, speaker, handle, tries, waits, hist>>

\* The SDK call raised, before or after the claim object was made; the turn
\* fails and nothing deletes the object.
ClaimFails(r) ==
    LET c == handle[r] IN
    /\ Goto(r, "claiming", "routing")
    /\ lock' = None
    /\ \/ cstate' = [cstate EXCEPT ![c] = "free"] /\ UNCHANGED <<pods, excused>>
       \/ /\ cstate' = [cstate EXCEPT ![c] = "held"]
          /\ pods' = pods \union {c}
          /\ excused' = excused \union {c}
    /\ UNCHANGED <<table, label, persona, deleting, speaker, handle, tries, waits,
                   lost, restarts>>

\* The cluster has no capacity left: the call raises at once.
ClaimRefused(r) ==
    /\ Goto(r, "waiting", "routing")
    /\ lock = None
    /\ Fresh(r) = {}
    /\ UNCHANGED <<table, lock, cloud, deleting, speaker, handle, tries, waits, hist>>

\* The pod answers the bind; mark_bound then marks the lease the agent has by
\* now, if it has one.
Bind(r) ==
    LET c == handle[r]  a == speaker[r] IN
    /\ Goto(r, "binding", "speaking")
    /\ c \in pods
    /\ persona' = [persona EXCEPT ![c] = a]
    /\ bound' = [bound EXCEPT ![a] = lease[a] # None]
    /\ UNCHANGED <<lease, lock, cstate, label, pods, deleting, speaker, handle, tries,
                   waits, hist>>

\* The turn answers, with a result, an error of its own, or no result at all.
\* A runtime with no persona answers 409, which is a failure of the transport.
Speak(r) ==
    /\ Goto(r, "speaking", "routing")
    /\ handle[r] \in pods
    /\ persona[handle[r]] # None
    /\ UNCHANGED <<table, lock, cloud, deleting, speaker, handle, tries, waits, hist>>

\* Mutation: the lease is given up only once its claim is deleted.
RaisesKeepingLease(r) ==
    LET popped == {lease[speaker[r]]} \ {None} IN
    /\ rpc[r] \in {"binding", "speaking"}
    /\ rpc' = [rpc EXCEPT ![r] = "invalidating"]
    /\ deleting' = deleting \union popped
    /\ waits' = [waits EXCEPT ![r] = popped]
    /\ UNCHANGED <<table, lock, cloud, speaker, handle, tries, hist>>

\* Mutation: the lease is forgotten, its claim is not deleted.
RaisesForgetting(r) ==
    /\ rpc[r] \in {"binding", "speaking"}
    /\ rpc' = [rpc EXCEPT ![r] = "invalidating"]
    /\ lease' = [lease EXCEPT ![speaker[r]] = None]
    /\ bound' = [bound EXCEPT ![speaker[r]] = FALSE]
    /\ UNCHANGED <<lock, cloud, deleting, speaker, handle, tries, waits, hist>>

\* Mutation: the flag is kept beside the lease, and outlives it.
RaisesKeepingFlag(r) ==
    LET a == speaker[r]  popped == {lease[a]} \ {None} IN
    /\ rpc[r] \in {"binding", "speaking"}
    /\ rpc' = [rpc EXCEPT ![r] = "invalidating"]
    /\ lease' = [lease EXCEPT ![a] = None]
    /\ deleting' = deleting \union popped
    /\ waits' = [waits EXCEPT ![r] = popped]
    /\ UNCHANGED <<bound, lock, cloud, speaker, handle, tries, hist>>

\* Bind or turn raised: invalidate pops the agent's lease and deletes its claim.
TurnRaises(r) ==
    LET a == speaker[r]  popped == {lease[a]} \ {None} IN
    /\ rpc[r] \in {"binding", "speaking"}
    /\ rpc' = [rpc EXCEPT ![r] = "invalidating"]
    /\ lease' = [lease EXCEPT ![a] = None]
    /\ bound' = [bound EXCEPT ![a] = FALSE]
    /\ deleting' = deleting \union popped
    /\ waits' = [waits EXCEPT ![r] = popped]
    /\ UNCHANGED <<lock, cloud, speaker, handle, tries, hist>>

\* Mutation: the attempt is counted and never looked at.
RetryAlways(r) ==
    /\ rpc[r] = "invalidating"
    /\ waits[r] \intersect deleting = {}
    /\ tries' = [tries EXCEPT ![r] = tries[r] + 1]
    /\ Acquire(r, speaker[r])
    /\ UNCHANGED <<table, lock, cloud, deleting, speaker, waits, hist>>

\* Mutation: the retry does not count as an attempt.
RetryForever(r) ==
    /\ rpc[r] = "invalidating"
    /\ waits[r] \intersect deleting = {}
    /\ Acquire(r, speaker[r])
    /\ UNCHANGED <<table, lock, cloud, deleting, speaker, tries, waits, hist>>

\* One retry, and exactly one, then the turn fails.
AfterInvalidate(r) ==
    /\ rpc[r] = "invalidating"
    /\ waits[r] \intersect deleting = {}
    /\ \/ /\ tries[r] = 0
          /\ tries' = [tries EXCEPT ![r] = 1]
          /\ Acquire(r, speaker[r])
       \/ /\ tries[r] = 1
          /\ rpc' = [rpc EXCEPT ![r] = "routing"]
          /\ UNCHANGED <<tries, handle>>
    /\ UNCHANGED <<table, lock, cloud, deleting, speaker, waits, hist>>

\* The stream is over: release_meeting pops every lease of the meeting.
Finish(r) ==
    /\ Goto(r, "routing", "releasing")
    /\ lease' = [a \in Agent |-> None]
    /\ bound' = [a \in Agent |-> FALSE]
    /\ deleting' = deleting \union Leased
    /\ waits' = [waits EXCEPT ![r] = Leased]
    /\ UNCHANGED <<lock, cloud, speaker, handle, tries, hist>>

Released(r) ==
    /\ Goto(r, "releasing", "over")
    /\ waits[r] \intersect deleting = {}
    /\ UNCHANGED <<table, lock, cloud, deleting, speaker, handle, tries, waits, hist>>

\* Mutation: the lock is not given back.
CutHoldingLock(r) ==
    /\ rpc[r] \in Active
    /\ rpc' = [rpc EXCEPT ![r] = "cut"]
    /\ excused' = IF rpc[r] = "claiming" THEN excused \union {handle[r]} ELSE excused
    /\ UNCHANGED <<table, lock, cloud, deleting, speaker, handle, tries, waits, lost,
                   restarts>>

\* The run is cancelled.  It gives the lock back, its threads go on, and it
\* releases nothing.
Cut(r) ==
    /\ rpc[r] \in Active
    /\ rpc' = [rpc EXCEPT ![r] = "cut"]
    /\ lock' = IF lock = r THEN None ELSE lock
    /\ excused' = IF rpc[r] = "claiming" THEN excused \union {handle[r]} ELSE excused
    /\ UNCHANGED <<table, cloud, deleting, speaker, handle, tries, waits, lost,                    restarts>>
-----------------------------------------------------------------------------
(***************************************************************************)
(* Threads and the cluster.                                                *)
(***************************************************************************)
\* A claim nobody waits for any more is made all the same, or fails.
AbandonedClaim(c) ==
    /\ cstate[c] = "making"
    /\ \A r \in Run : ~(rpc[r] = "claiming" /\ handle[r] = c)
    /\ \/ cstate' = [cstate EXCEPT ![c] = "held"] /\ pods' = pods \union {c}
       \/ cstate' = [cstate EXCEPT ![c] = "free"] /\ UNCHANGED pods
    /\ UNCHANGED <<table, lock, label, persona, deleting, runs, hist>>

Gone(c) ==
    /\ cstate' = [cstate EXCEPT ![c] = "free"]
    /\ pods' = pods \ {c}
    /\ persona' = [persona EXCEPT ![c] = None]

\* release swallows a failure: the claim is then left as it is.
DeleteEnds(c) ==
    /\ c \in deleting
    /\ deleting' = deleting \ {c}
    /\ \/ Gone(c) /\ UNCHANGED excused
       \/ UNCHANGED <<cstate, pods, persona>> /\ excused' = excused \union {c}
    /\ UNCHANGED <<table, lock, label, runs, lost, restarts>>

PodLost(c) ==
    /\ c \in pods
    /\ pods' = pods \ {c}
    /\ persona' = [persona EXCEPT ![c] = None]
    /\ lost' = lost \union {c}
    /\ UNCHANGED <<table, lock, cstate, label, deleting, runs, excused, restarts>>

\* The controller starts a pod for any claim that has none.
PodStarts(c) ==
    /\ cstate[c] = "held"
    /\ c \notin pods
    /\ pods' = pods \union {c}
    /\ UNCHANGED <<table, lock, cstate, label, persona, deleting, runs, hist>>

\* The claim reaches SANDBOX_MAX_LIFETIME_SECONDS.
Expire(c) ==
    /\ cstate[c] = "held"
    /\ Gone(c)
    /\ lost' = lost \union {c}
    /\ UNCHANGED <<table, lock, label, deleting, runs, excused, restarts>>

\* The backend dies and another starts: leases and threads are gone, claims the
\* cluster was making are made or not, and the sweep deletes the Sandbox of
\* every claim, since the reaper left no meeting live: each delete may fail, and
\* so may the listing.
Restart ==
    /\ restarts < MaxRestarts
    /\ restarts' = restarts + 1
    /\ lease' = [a \in Agent |-> None]
    /\ bound' = [a \in Agent |-> FALSE]
    /\ lock' = None
    /\ deleting' = {}
    /\ rpc' = [r \in Run |-> IF rpc[r] \in Active THEN "cut" ELSE rpc[r]]
    /\ \E made \in SUBSET {c \in Claim : cstate[c] = "making"} :
       \E down \in SUBSET (pods \union made) :
         /\ cstate' = [c \in Claim |->
                         IF cstate[c] # "making" THEN cstate[c]
                         ELSE IF c \in made THEN "held" ELSE "free"]
         /\ pods' = (pods \union made) \ down
         /\ persona' = [c \in Claim |-> IF c \in down THEN None ELSE persona[c]]
         /\ lost' = lost \union down
    /\ excused' = excused \union {c \in Claim : cstate[c] \in {"making", "held"}}
    /\ UNCHANGED <<label, speaker, handle, tries, waits>>
-----------------------------------------------------------------------------
RunStep(r) ==
    \/ \E a \in Agent : BeginTurn(r, a)
    \/ \E c \in Claim : StartClaim(r, c)
    \/ Claimed(r) \/ ClaimFails(r) \/ ClaimRefused(r)
    \/ Bind(r) \/ Speak(r) \/ TurnRaises(r) \/ AfterInvalidate(r)
    \/ Finish(r) \/ Released(r)

Cluster(c) ==
    \/ AbandonedClaim(c) \/ DeleteEnds(c) \/ PodLost(c) \/ PodStarts(c) \/ Expire(c)

Next ==
    \/ \E r \in Run : BeginRun(r) \/ RunStep(r) \/ Cut(r)
    \/ \E c \in Claim : Cluster(c)
    \/ Restart

Spec == Init /\ [][Next]_vars

\* The environment Meetings gives with one tab per meeting: a run starts only
\* when no other is active.
OneRunNext ==
    /\ Next
    /\ \A r, q \in Run : rpc[r] = "idle" /\ rpc'[r] = "routing" => rpc[q] \notin Active

OneRunSpec == Init /\ [][OneRunNext]_vars

\* The event loop runs what is ready and SDK and HTTP calls end, since each has a
\* timeout.  Nothing makes a meeting's next turn begin or its stream end.
Fairness ==
    /\ \A r \in Run :
         /\ WF_vars(Claimed(r) \/ ClaimFails(r))
         /\ WF_vars(Bind(r) \/ Speak(r) \/ TurnRaises(r))
         /\ WF_vars(AfterInvalidate(r)) /\ WF_vars(Released(r))
         /\ WF_vars(ClaimRefused(r) \/ \E c \in Claim : StartClaim(r, c))
    /\ \A c \in Claim : WF_vars(DeleteEnds(c))

OneRunFairSpec == OneRunSpec /\ Fairness
-----------------------------------------------------------------------------
(***************************************************************************)
(* Properties.                                                             *)
(***************************************************************************)
\* Every variable has its type.
TypeOK ==
    /\ lease \in [Agent -> Claim \union {None}]
    /\ bound \in [Agent -> BOOLEAN]
    /\ lock \in Run \union {None}
    /\ cstate \in [Claim -> ClaimState]
    /\ label \in [Claim -> Agent \union {None}]
    /\ pods \subseteq Claim
    /\ persona \in [Claim -> Agent \union {None}]
    /\ deleting \subseteq Claim
    /\ rpc \in [Run -> Active \union {"idle", "over", "cut"}]
    /\ speaker \in [Run -> Agent \union {None}]
    /\ handle \in [Run -> Claim \union {None}]
    /\ tries \in [Run -> 0 .. 1]
    /\ waits \in [Run -> SUBSET Claim]
    /\ excused \subseteq Claim
    /\ lost \subseteq Claim
    /\ restarts \in 0 .. MaxRestarts

\* A persona is only ever bound into a pod that carries its own label, the one
\* the internal API takes for the caller's identity: however runs overlap and
\* leases are replaced, a handle never goes to another persona's pod.
BoundUnderOwnLabel ==
    \A c \in Claim : persona[c] # None => persona[c] = label[c]

\* A lease that was given up is never handed out again: no leased claim is being
\* deleted.
LeasedNotDeleting == Leased \intersect deleting = {}

\* The lock belongs to a run that is claiming; no cancellation leaves it taken.
LockHeldWhileClaiming ==
    \A r \in Run : lock = r <=> rpc[r] = "claiming"

\* One sandbox per persona per meeting: a lease is never replaced by another
\* without being given up first.
NoLeaseOverwritten ==
    [][\A a \in Agent : lease[a] # None => lease'[a] \in {lease[a], None}]_vars

\* Every claim the cluster holds is leased or being deleted, unless an SDK call
\* failed or was abandoned over it: invalidating a lease always gives its claim
\* back.
ClaimsAccountedFor ==
    \A c \in Claim : cstate[c] = "held" => c \in Leased \union deleting \union excused

\* A lease marked bound has its persona in the pod, as long as that pod was
\* never lost: the flag moves with the lease it was set for.
BoundFlagIsTrue ==
    \A a \in Agent : bound[a] =>
        lease[a] # None /\ (persona[lease[a]] = a \/ lease[a] \in lost)

\* A turn ends however often claims fail and pods are lost: it is retried once.
TurnsEnd ==
    \A r \in Run : rpc[r] \in InTurn ~> rpc[r] \notin InTurn

\* When a run ends its sandboxes are terminated: with no run active and no
\* deletion under way, nothing is leased.
EndedRunHoldsNothing ==
    (\A r \in Run : rpc[r] \notin Active) /\ deleting = {} => Leased = {}

(***************************************************************************)
(* Refinement: the runs of this one meeting.                               *)
(***************************************************************************)
PhaseOf(p) ==
    IF p = "idle" THEN "idle" ELSE IF p \in Active THEN "active" ELSE "over"

Turns == INSTANCE RunsInTurn WITH
    Meeting <- {},
    phase <- [r \in Run |-> PhaseOf(rpc[r])],
    meeting <- [r \in Run |-> None]

\* The runs that OneRunSpec allows are those that take turns.
RunsTakeTurns == Turns!TurnsSpec

\* The turns that are in a sandbox.
Serving ==
    {<<speaker[r], handle[r]>> : r \in {q \in Run : rpc[q] \in {"binding", "speaking"}}}

Standing == {c \in Claim : cstate[c] = "held"}

Manager == INSTANCE Leases WITH
    leased <- lease,
    ready <- bound,
    ending <- deleting,
    standing <- Standing,
    serving <- Serving

\* When runs take turns the manager keeps its promise, although acquire reads the
\* table before its lock and threads, pods and the cluster go their own way.
RefinesLeases == Manager!LeasesSpec
=============================================================================
