----------------------- MODULE SandboxesOneRunProofs -----------------------
(***************************************************************************)
(* Proofs about Sandboxes when the runs of a meeting do not overlap, for   *)
(* any attendees, runs, claims and restarts.  The lease table can then be  *)
(* trusted by the run that reads it: what it read before it took the lock  *)
(* is still so after, and the manager implements Leases.                   *)
(***************************************************************************)
EXTENDS SandboxesProofs

\* At most one run is active.
Alone == \A r, q \in Run : rpc[r] \in Active /\ rpc[q] \in Active => r = q

\* What the active run read of the lease table is still there: nothing while it
\* waits and claims, and then the sandbox it binds and speaks to.
TableTrusted ==
    \A r \in Run :
        /\ rpc[r] \in {"waiting", "claiming"} => lease[speaker[r]] = None
        /\ rpc[r] \in {"binding", "speaking"} => lease[speaker[r]] = handle[r]

\* A claim under way that no run waits for any more was abandoned.
MakingExplained ==
    \A c \in Claim : cstate[c] = "making" =>
        c \in excused \/ \E r \in Run : rpc[r] = "claiming" /\ handle[r] = c

USE NoneIsNew, RestartsBounded
USE DEF table, cloud, runs, hist, vars, InTurn, Active, ClaimState, Leased

\* A step of OneRunNext keeps the active run alone.
LEMMA AloneInductive ==
    ASSUME TypeOK, Alone, [OneRunNext]_vars
    PROVE  Alone'
<1> USE DEF TypeOK, Alone, OneRunNext
<1>1. ASSUME NEW r \in Run,
             BeginRun(r) \/ ClaimRefused(r) \/ Speak(r) \/ Released(r)
      PROVE  Alone'
  BY <1>1 DEF BeginRun, Goto, ClaimRefused, Speak, Released
<1>2. ASSUME NEW r \in Run, NEW a \in Agent, BeginTurn(r, a) PROVE Alone'
  BY <1>2 DEF BeginTurn, Acquire
<1>3. ASSUME NEW r \in Run, NEW c \in Claim, StartClaim(r, c) PROVE Alone'
  BY <1>3 DEF StartClaim, Goto, Fresh
<1>4. ASSUME NEW r \in Run, Claimed(r) PROVE Alone'
  BY <1>4 DEF Claimed, Goto
<1>5. ASSUME NEW r \in Run, ClaimFails(r) PROVE Alone'
  BY <1>5 DEF ClaimFails, Goto
<1>6. ASSUME NEW r \in Run, Bind(r) PROVE Alone'
  BY <1>6 DEF Bind, Goto
<1>7. ASSUME NEW r \in Run, TurnRaises(r) PROVE Alone'
  BY <1>7 DEF TurnRaises
<1>8. ASSUME NEW r \in Run, AfterInvalidate(r) PROVE Alone'
  BY <1>8 DEF AfterInvalidate, Acquire
<1>9. ASSUME NEW r \in Run, Finish(r) PROVE Alone'
  BY <1>9 DEF Finish, Goto
<1>10. ASSUME NEW r \in Run, Cut(r) PROVE Alone'
  BY <1>10 DEF Cut
<1>11. ASSUME NEW c \in Claim, AbandonedClaim(c) \/ PodStarts(c) PROVE Alone'
  BY <1>11 DEF AbandonedClaim, PodStarts
<1>12. ASSUME NEW c \in Claim, DeleteEnds(c) \/ Expire(c) PROVE Alone'
  BY <1>12 DEF DeleteEnds, Gone, Expire
<1>13. ASSUME NEW c \in Claim, PodLost(c) PROVE Alone'
  BY <1>13 DEF PodLost
<1>14. CASE Restart
  BY <1>14 DEF Restart
<1>15. CASE UNCHANGED vars
  BY <1>15
<1>16. QED
  BY <1>1, <1>2, <1>3, <1>4, <1>5, <1>6, <1>7, <1>8, <1>9, <1>10, <1>11,
     <1>12, <1>13, <1>14, <1>15
     DEF Next, RunStep, Cluster

\* With one run active nobody else writes the table it read.
LEMMA TableInductive ==
    ASSUME TypeOK, Placed, Labelled, Alone, Alone', TableTrusted, [Next]_vars
    PROVE  TableTrusted'
<1> USE DEF TypeOK, Placed, Labelled, Alone, TableTrusted
<1>1. ASSUME NEW r \in Run,
             BeginRun(r) \/ ClaimRefused(r) \/ Speak(r) \/ Released(r)
      PROVE  TableTrusted'
  BY <1>1 DEF BeginRun, Goto, ClaimRefused, Speak, Released
<1>2. ASSUME NEW r \in Run, NEW a \in Agent, BeginTurn(r, a) PROVE TableTrusted'
  BY <1>2 DEF BeginTurn, Acquire
<1>3. ASSUME NEW r \in Run, NEW c \in Claim, StartClaim(r, c) PROVE TableTrusted'
  BY <1>3 DEF StartClaim, Goto, Fresh
<1>4. ASSUME NEW r \in Run, Claimed(r) PROVE TableTrusted'
  BY <1>4 DEF Claimed, Goto
<1>5. ASSUME NEW r \in Run, ClaimFails(r) PROVE TableTrusted'
  BY <1>5 DEF ClaimFails, Goto
<1>6. ASSUME NEW r \in Run, Bind(r) PROVE TableTrusted'
  BY <1>6 DEF Bind, Goto
<1>7. ASSUME NEW r \in Run, TurnRaises(r) PROVE TableTrusted'
  BY <1>7 DEF TurnRaises
<1>8. ASSUME NEW r \in Run, AfterInvalidate(r) PROVE TableTrusted'
  BY <1>8 DEF AfterInvalidate, Acquire
<1>9. ASSUME NEW r \in Run, Finish(r) PROVE TableTrusted'
  BY <1>9 DEF Finish, Goto
<1>10. ASSUME NEW r \in Run, Cut(r) PROVE TableTrusted'
  BY <1>10 DEF Cut
<1>11. ASSUME NEW c \in Claim, AbandonedClaim(c) \/ PodStarts(c) PROVE TableTrusted'
  BY <1>11 DEF AbandonedClaim, PodStarts
<1>12. ASSUME NEW c \in Claim, DeleteEnds(c) \/ Expire(c) PROVE TableTrusted'
  BY <1>12 DEF DeleteEnds, Gone, Expire
<1>13. ASSUME NEW c \in Claim, PodLost(c) PROVE TableTrusted'
  BY <1>13 DEF PodLost
<1>14. CASE Restart
  BY <1>14 DEF Restart
<1>15. CASE UNCHANGED vars
  BY <1>15
<1>16. QED
  BY <1>1, <1>2, <1>3, <1>4, <1>5, <1>6, <1>7, <1>8, <1>9, <1>10, <1>11,
     <1>12, <1>13, <1>14, <1>15
     DEF Next, RunStep, Cluster

\* A run leaves a claim it is making by ending it or by being cut, and a cut
\* excuses the claim.
LEMMA MakingInductive ==
    ASSUME TypeOK, Placed, OutOfReach, LockHeldWhileClaiming, MakingExplained, [Next]_vars
    PROVE  MakingExplained'
<1> USE DEF TypeOK, Placed, OutOfReach, LockHeldWhileClaiming, MakingExplained
<1>1. ASSUME NEW r \in Run,
             BeginRun(r) \/ ClaimRefused(r) \/ Speak(r) \/ Released(r)
      PROVE  MakingExplained'
  BY <1>1 DEF BeginRun, Goto, ClaimRefused, Speak, Released
<1>2. ASSUME NEW r \in Run, NEW a \in Agent, BeginTurn(r, a) PROVE MakingExplained'
  BY <1>2 DEF BeginTurn, Acquire
<1>3. ASSUME NEW r \in Run, NEW c \in Claim, StartClaim(r, c) PROVE MakingExplained'
  BY <1>3 DEF StartClaim, Goto, Fresh
<1>4. ASSUME NEW r \in Run, Claimed(r) PROVE MakingExplained'
  BY <1>4 DEF Claimed, Goto
<1>5. ASSUME NEW r \in Run, ClaimFails(r) PROVE MakingExplained'
  BY <1>5 DEF ClaimFails, Goto
<1>6. ASSUME NEW r \in Run, Bind(r) PROVE MakingExplained'
  BY <1>6 DEF Bind, Goto
<1>7. ASSUME NEW r \in Run, TurnRaises(r) PROVE MakingExplained'
  BY <1>7 DEF TurnRaises
<1>8. ASSUME NEW r \in Run, AfterInvalidate(r) PROVE MakingExplained'
  BY <1>8 DEF AfterInvalidate, Acquire
<1>9. ASSUME NEW r \in Run, Finish(r) PROVE MakingExplained'
  BY <1>9 DEF Finish, Goto
<1>10. ASSUME NEW r \in Run, Cut(r) PROVE MakingExplained'
  BY <1>10 DEF Cut
<1>11. ASSUME NEW c \in Claim,
              AbandonedClaim(c) \/ PodStarts(c)
       PROVE  MakingExplained'
  BY <1>11 DEF AbandonedClaim, PodStarts
<1>12. ASSUME NEW c \in Claim, DeleteEnds(c) \/ Expire(c) PROVE MakingExplained'
  BY <1>12 DEF DeleteEnds, Gone, Expire
<1>13. ASSUME NEW c \in Claim, PodLost(c) PROVE MakingExplained'
  BY <1>13 DEF PodLost
<1>14. CASE Restart
  BY <1>14 DEF Restart
<1>15. CASE UNCHANGED vars
  BY <1>15
<1>16. QED
  BY <1>1, <1>2, <1>3, <1>4, <1>5, <1>6, <1>7, <1>8, <1>9, <1>10, <1>11,
     <1>12, <1>13, <1>14, <1>15
     DEF Next, RunStep, Cluster

\* A claim enters the cluster leased or excused, and leaves the table only to be
\* deleted.
LEMMA AccountedInductive ==
    ASSUME TypeOK, Placed, OutOfReach, TableTrusted, MakingExplained,
           ClaimsAccountedFor, [Next]_vars
    PROVE  ClaimsAccountedFor'
<1> USE DEF TypeOK, Placed, OutOfReach, TableTrusted, MakingExplained, ClaimsAccountedFor
<1>1. ASSUME NEW r \in Run,
             BeginRun(r) \/ ClaimRefused(r) \/ Speak(r) \/ Released(r)
      PROVE  ClaimsAccountedFor'
  BY <1>1 DEF BeginRun, Goto, ClaimRefused, Speak, Released
<1>2. ASSUME NEW r \in Run, NEW a \in Agent,
             BeginTurn(r, a)
      PROVE  ClaimsAccountedFor'
  BY <1>2 DEF BeginTurn, Acquire
<1>3. ASSUME NEW r \in Run, NEW c \in Claim,
             StartClaim(r, c)
      PROVE  ClaimsAccountedFor'
  BY <1>3 DEF StartClaim, Goto, Fresh
<1>4. ASSUME NEW r \in Run, Claimed(r) PROVE ClaimsAccountedFor'
  BY <1>4 DEF Claimed, Goto
<1>5. ASSUME NEW r \in Run, ClaimFails(r) PROVE ClaimsAccountedFor'
  BY <1>5 DEF ClaimFails, Goto
<1>6. ASSUME NEW r \in Run, Bind(r) PROVE ClaimsAccountedFor'
  BY <1>6 DEF Bind, Goto
<1>7. ASSUME NEW r \in Run, TurnRaises(r) PROVE ClaimsAccountedFor'
  BY <1>7 DEF TurnRaises
<1>8. ASSUME NEW r \in Run, AfterInvalidate(r) PROVE ClaimsAccountedFor'
  BY <1>8 DEF AfterInvalidate, Acquire
<1>9. ASSUME NEW r \in Run, Finish(r) PROVE ClaimsAccountedFor'
  BY <1>9 DEF Finish, Goto
<1>10. ASSUME NEW r \in Run, Cut(r) PROVE ClaimsAccountedFor'
  BY <1>10 DEF Cut
<1>11. ASSUME NEW c \in Claim,
              AbandonedClaim(c) \/ PodStarts(c)
       PROVE  ClaimsAccountedFor'
  BY <1>11 DEF AbandonedClaim, PodStarts
<1>12. ASSUME NEW c \in Claim, DeleteEnds(c) \/ Expire(c) PROVE ClaimsAccountedFor'
  BY <1>12 DEF DeleteEnds, Gone, Expire
<1>13. ASSUME NEW c \in Claim, PodLost(c) PROVE ClaimsAccountedFor'
  BY <1>13 DEF PodLost
<1>14. CASE Restart
  BY <1>14 DEF Restart
<1>15. CASE UNCHANGED vars
  BY <1>15
<1>16. QED
  BY <1>1, <1>2, <1>3, <1>4, <1>5, <1>6, <1>7, <1>8, <1>9, <1>10, <1>11,
     <1>12, <1>13, <1>14, <1>15
     DEF Next, RunStep, Cluster

\* The flag is set for the sandbox that was bound, and goes with its lease.
LEMMA BoundInductive ==
    ASSUME TypeOK, Placed, PodsStand, Labelled, OutOfReach,
           LeasedNotDeleting, TableTrusted, BoundFlagIsTrue, [Next]_vars
    PROVE  BoundFlagIsTrue'
<1> USE DEF TypeOK, Placed, PodsStand, Labelled, OutOfReach, LeasedNotDeleting, TableTrusted, BoundFlagIsTrue
<1>1. ASSUME NEW r \in Run,
             BeginRun(r) \/ ClaimRefused(r) \/ Speak(r) \/ Released(r)
      PROVE  BoundFlagIsTrue'
  BY <1>1 DEF BeginRun, Goto, ClaimRefused, Speak, Released
<1>2. ASSUME NEW r \in Run, NEW a \in Agent, BeginTurn(r, a) PROVE BoundFlagIsTrue'
  BY <1>2 DEF BeginTurn, Acquire
<1>3. ASSUME NEW r \in Run, NEW c \in Claim, StartClaim(r, c) PROVE BoundFlagIsTrue'
  BY <1>3 DEF StartClaim, Goto, Fresh
<1>4. ASSUME NEW r \in Run, Claimed(r) PROVE BoundFlagIsTrue'
  BY <1>4 DEF Claimed, Goto
<1>5. ASSUME NEW r \in Run, ClaimFails(r) PROVE BoundFlagIsTrue'
  BY <1>5 DEF ClaimFails, Goto
<1>6. ASSUME NEW r \in Run, Bind(r) PROVE BoundFlagIsTrue'
  BY <1>6 DEF Bind, Goto
<1>7. ASSUME NEW r \in Run, TurnRaises(r) PROVE BoundFlagIsTrue'
  BY <1>7 DEF TurnRaises
<1>8. ASSUME NEW r \in Run, AfterInvalidate(r) PROVE BoundFlagIsTrue'
  BY <1>8 DEF AfterInvalidate, Acquire
<1>9. ASSUME NEW r \in Run, Finish(r) PROVE BoundFlagIsTrue'
  BY <1>9 DEF Finish, Goto
<1>10. ASSUME NEW r \in Run, Cut(r) PROVE BoundFlagIsTrue'
  BY <1>10 DEF Cut
<1>11. ASSUME NEW c \in Claim,
              AbandonedClaim(c) \/ PodStarts(c)
       PROVE  BoundFlagIsTrue'
  BY <1>11 DEF AbandonedClaim, PodStarts
<1>12. ASSUME NEW c \in Claim, DeleteEnds(c) \/ Expire(c) PROVE BoundFlagIsTrue'
  BY <1>12 DEF DeleteEnds, Gone, Expire
<1>13. ASSUME NEW c \in Claim, PodLost(c) PROVE BoundFlagIsTrue'
  BY <1>13 DEF PodLost
<1>14. CASE Restart
  BY <1>14 DEF Restart
<1>15. CASE UNCHANGED vars
  BY <1>15
<1>16. QED
  BY <1>1, <1>2, <1>3, <1>4, <1>5, <1>6, <1>7, <1>8, <1>9, <1>10, <1>11,
     <1>12, <1>13, <1>14, <1>15
     DEF Next, RunStep, Cluster

\* The inductive invariant of runs that do not overlap.
OneRunInv ==
    /\ Alone
    /\ TableTrusted
    /\ MakingExplained
    /\ ClaimsAccountedFor
    /\ BoundFlagIsTrue

\* Every state reachable with runs that do not overlap satisfies it.
THEOREM OneRunInvariance == OneRunSpec => [](TypeOK /\ IInv /\ OneRunInv)
<1>1. OneRunSpec => Spec
  <2>1. [OneRunNext]_vars => [Next]_vars
    BY DEF OneRunNext
  <2>2. QED
    BY <2>1, PTL DEF OneRunSpec, Spec
<1>2. Init => OneRunInv
  BY DEF Init, OneRunInv, Alone, TableTrusted, MakingExplained, ClaimsAccountedFor,
         BoundFlagIsTrue
<1>3. ASSUME TypeOK, IInv, (TypeOK /\ IInv)', OneRunInv, [OneRunNext]_vars
      PROVE  OneRunInv'
  <2>1. [Next]_vars
    BY <1>3 DEF OneRunNext
  <2>2. Alone'
    BY <1>3, AloneInductive DEF OneRunInv
  <2>3. QED
    BY <1>3, <2>1, <2>2, TableInductive, MakingInductive, AccountedInductive,
       BoundInductive DEF IInv, OneRunInv
<1>4. QED
  BY <1>1, <1>2, <1>3, Invariance, PTL DEF OneRunSpec

\* Every claim in the cluster is leased, being deleted, or excused by a failed
\* or abandoned SDK call.
THEOREM NoClaimForgotten == OneRunSpec => []ClaimsAccountedFor
<1>1. OneRunInv => ClaimsAccountedFor
  BY DEF OneRunInv
<1>2. QED
  BY <1>1, OneRunInvariance, PTL

\* The bound flag tells the truth until a pod is lost.
THEOREM FlagTellsTheTruth == OneRunSpec => []BoundFlagIsTrue
<1>1. OneRunInv => BoundFlagIsTrue
  BY DEF OneRunInv
<1>2. QED
  BY <1>1, OneRunInvariance, PTL

\* One sandbox per attendee: no lease is replaced before it is given up.
THEOREM OneLeaseEach == OneRunSpec => NoLeaseOverwritten
<1> DEFINE Kept == \A a \in Agent : lease[a] # None => lease'[a] \in {lease[a], None}
<1>1. ASSUME TypeOK, Placed, TableTrusted, [Next]_vars PROVE Kept
  <2> USE <1>1 DEF TypeOK
  <2>1. ASSUME NEW r \in Run, Claimed(r) PROVE Kept
    <3>1. lease[speaker[r]] = None
      BY <2>1 DEF Claimed, Goto, TableTrusted
    <3>2. ASSUME NEW a \in Agent, lease[a] # None PROVE lease'[a] = lease[a]
      BY <2>1, <3>1, <3>2 DEF Claimed
    <3>3. QED
      BY <3>2
  <2>2. ASSUME NEW r \in Run, TurnRaises(r) PROVE Kept
    BY <2>2 DEF TurnRaises
  <2>3. ASSUME NEW r \in Run, Finish(r) PROVE Kept
    BY <2>3 DEF Finish
  <2>4. CASE Restart
    BY <2>4 DEF Restart
  <2>5. CASE UNCHANGED lease
    BY <2>5
  <2>6. QED
    BY <1>1, <2>1, <2>2, <2>3, <2>4, <2>5
       DEF Next, RunStep, Cluster, BeginRun, BeginTurn, StartClaim, ClaimFails,
           ClaimRefused, Bind, Speak, AfterInvalidate, Released, Cut, AbandonedClaim,
           DeleteEnds, PodLost, PodStarts, Expire
<1>2. TypeOK /\ IInv /\ OneRunInv /\ [OneRunNext]_vars => [Kept]_vars
  <2>1. [OneRunNext]_vars => [Next]_vars
    BY DEF OneRunNext
  <2>2. QED
    BY <1>1, <2>1 DEF IInv, OneRunInv
<1>3. QED
  BY <1>2, OneRunInvariance, PTL DEF OneRunSpec, NoLeaseOverwritten
-----------------------------------------------------------------------------
(***************************************************************************)
(* The environment: runs in turn and nothing else.                         *)
(***************************************************************************)
\* Every step of Sandboxes is one the runs can take in turn, but for a run that
\* begins beside an active one.
LEMMA TurnsStep ==
    ASSUME TypeOK, OneRunNext
    PROVE  [Turns!TurnsNext]_(Turns!turnVars)
<1> DEFINE phase == [r \in Run |-> PhaseOf(rpc[r])]
<1> USE DEF TypeOK
<1>1. ASSUME NEW r \in Run, NEW p, rpc' = [rpc EXCEPT ![r] = p],
             PhaseOf(p) \in {PhaseOf(rpc[r]), "over"}
      PROVE  [Turns!TurnsNext]_(Turns!turnVars)
  <2>1. CASE PhaseOf(p) = PhaseOf(rpc[r])
    <3>1. phase' = phase
      BY <1>1, <2>1
    <3>2. QED
      BY <3>1 DEF Turns!turnVars
  <2>2. CASE PhaseOf(p) = "over"
    <3>1. phase' = [q \in Run |-> IF q \in {r} THEN "over" ELSE phase[q]]
      BY <1>1, <2>2
    <3>2. Turns!End({r})
      BY <3>1 DEF Turns!End
    <3>3. QED
      BY <3>2 DEF Turns!TurnsNext
  <2>3. QED
    BY <1>1, <2>1, <2>2
<1>2. ASSUME UNCHANGED rpc PROVE UNCHANGED Turns!turnVars
  BY <1>2 DEF Turns!turnVars
<1>3. ASSUME NEW r \in Run, BeginRun(r) PROVE Turns!TurnsNext
  <2>1. rpc[r] = "idle" /\ rpc' = [rpc EXCEPT ![r] = "routing"]
    BY <1>3 DEF BeginRun, Goto
  <2>2. \A q \in Run : phase[q] # "active"
    BY <2>1 DEF OneRunNext, PhaseOf
  <2>3. phase' = [phase EXCEPT ![r] = "active"] /\ phase[r] = "idle"
    BY <2>1 DEF PhaseOf
  <2>4. Turns!Begin(r)
    BY <2>2, <2>3 DEF Turns!Begin
  <2>5. QED
    BY <2>4 DEF Turns!TurnsNext
<1>4. ASSUME NEW r \in Run, RunStep(r) \/ Cut(r)
      PROVE  [Turns!TurnsNext]_(Turns!turnVars)
  <2>1. \E p \in Active \union {"over", "cut"} :
           rpc[r] \in Active /\ rpc' = [rpc EXCEPT ![r] = p]
    BY <1>4 DEF RunStep, Cut, BeginTurn, Acquire, StartClaim, Claimed, ClaimFails,
         ClaimRefused, Bind, Speak, TurnRaises, AfterInvalidate, Finish, Released, Goto
  <2>2. QED
    BY <1>1, <2>1 DEF PhaseOf
<1>5. ASSUME NEW c \in Claim, Cluster(c) PROVE UNCHANGED Turns!turnVars
  BY <1>2, <1>5 DEF Cluster, AbandonedClaim, DeleteEnds, PodLost, PodStarts, Expire
<1>6. CASE Restart
  <2>1. phase' = [r \in Run |-> IF r \in {q \in Run : rpc[q] \in Active}
                                THEN "over" ELSE phase[r]]
    BY <1>6 DEF Restart, PhaseOf
  <2>2. Turns!End({q \in Run : rpc[q] \in Active})
    BY <2>1 DEF Turns!End
  <2>3. QED
    BY <2>2 DEF Turns!TurnsNext
<1>7. QED
  BY <1>3, <1>4, <1>5, <1>6 DEF OneRunNext, Next

\* A step in which the runs take turns begins none beside an active one.
LEMMA TurnsAreEnough ==
    ASSUME TypeOK, Next, [Turns!TurnsNext]_(Turns!turnVars)
    PROVE  OneRunNext
<1> DEFINE phase == [r \in Run |-> PhaseOf(rpc[r])]
<1> SUFFICES ASSUME NEW r \in Run, rpc[r] = "idle", rpc'[r] = "routing",
                    NEW q \in Run, rpc[q] \in Active
             PROVE  FALSE
  BY DEF OneRunNext
<1>1. phase[r] = "idle" /\ phase'[r] = "active" /\ phase[q] = "active"
  BY DEF PhaseOf
<1>2. \E b \in Run : Turns!Begin(b)
  <2>1. ~ (UNCHANGED Turns!turnVars) /\ ~ (\E b \in Run, m \in {} : Turns!Assign(b, m))
    BY <1>1 DEF Turns!turnVars
  <2>2. ASSUME NEW R \in SUBSET Run, Turns!End(R) PROVE FALSE
    <3>1. phase'[r] \in {"over", phase[r]}
      BY <2>2 DEF Turns!End
    <3>2. QED
      BY <1>1, <3>1
  <2>3. QED
    BY <2>1, <2>2 DEF Turns!TurnsNext
<1>3. QED
  BY <1>1, <1>2 DEF Turns!Begin

\* OneRunSpec assumes of its runs exactly that they take turns.
THEOREM OneRunIsInTurn == OneRunSpec <=> Spec /\ RunsTakeTurns
<1>1. Init => Turns!TurnsInit
  BY DEF Init, Turns!TurnsInit, PhaseOf
<1>2. TypeOK /\ [OneRunNext]_vars => [Turns!TurnsNext]_(Turns!turnVars)
  <2>1. CASE UNCHANGED vars
    BY <2>1 DEF Turns!turnVars
  <2>2. QED
    BY <2>1, TurnsStep
<1>3. TypeOK /\ [Next]_vars /\ [Turns!TurnsNext]_(Turns!turnVars) => [OneRunNext]_vars
  BY TurnsAreEnough
<1>4. [OneRunNext]_vars => [Next]_vars
  BY DEF OneRunNext
<1>5. OneRunSpec => Spec
  BY <1>4, PTL DEF OneRunSpec, Spec
<1>6. Spec => []TypeOK
  BY Typing
<1>7. QED
  BY <1>1, <1>2, <1>3, <1>5, <1>6, PTL DEF OneRunSpec, Spec, RunsTakeTurns, Turns!TurnsSpec

-----------------------------------------------------------------------------
(***************************************************************************)
(* What the manager promises.                                              *)
(***************************************************************************)
Uses(r) == rpc[r] \in {"binding", "speaking"}

\* With one active run the turn in a sandbox is that run's.
LEMMA OnlyServed ==
    ASSUME Alone, NEW r \in Run, rpc[r] \in Active
    PROVE  Serving = IF Uses(r) THEN {<<speaker[r], handle[r]>>} ELSE {}
<1>1. \A q \in Run : Uses(q) => q = r
  BY DEF Alone, Uses
<1>2. CASE Uses(r)
  BY <1>1, <1>2 DEF Serving, Uses
<1>3. CASE ~ Uses(r)
  BY <1>1, <1>3 DEF Serving, Uses
<1>4. QED
  BY <1>2, <1>3

\* After a step of the active run it is still the only one that can use a sandbox.
LEMMA OnlyServedNext ==
    ASSUME Alone, NEW r \in Run, rpc[r] \in Active, TypeOK,
           NEW p, rpc' = [rpc EXCEPT ![r] = p]
    PROVE  Serving' = IF p \in {"binding", "speaking"}
                        THEN {<<speaker'[r], handle'[r]>>} ELSE {}
<1>1. \A q \in Run : rpc'[q] \in {"binding", "speaking"} <=> q = r /\ p \in {"binding", "speaking"}
  BY DEF Alone, TypeOK
<1>2. Serving' = {<<speaker'[q], handle'[q]>> : q \in {q \in Run : rpc'[q] \in {"binding", "speaking"}}}
  BY DEF Serving
<1>3. CASE p \in {"binding", "speaking"}
  <2>1. {q \in Run : rpc'[q] \in {"binding", "speaking"}} = {r}
    BY <1>1, <1>3
  <2>2. QED
    BY <1>2, <1>3, <2>1
<1>4. CASE p \notin {"binding", "speaking"}
  <2>1. {q \in Run : rpc'[q] \in {"binding", "speaking"}} = {}
    BY <1>1, <1>4
  <2>2. QED
    BY <1>2, <1>4, <2>1
<1>5. QED
  BY <1>3, <1>4

\* What a change of one claim object does to the sandboxes there are.
LEMMA StandingNext ==
    ASSUME TypeOK, NEW c \in Claim
    PROVE  /\ cstate' = [cstate EXCEPT ![c] = "held"] => Standing' = Standing \union {c}
           /\ cstate' = [cstate EXCEPT ![c] = "making"] => Standing' = Standing \ {c}
           /\ cstate' = [cstate EXCEPT ![c] = "free"] => Standing' = Standing \ {c}
BY DEF TypeOK, Standing

\* A turn begun goes to the attendee's own sandbox, or nowhere yet.
LEMMA AcquireStep ==
    ASSUME TypeOK, Alone, NEW r \in Run, rpc[r] \in Active, ~ Uses(r),
           NEW S, speaker' = S, S[r] \in Agent, Acquire(r, S[r]),
           UNCHANGED <<lease, bound, deleting, cstate>>
    PROVE  [Manager!LeasesNext]_(Manager!leaseVars)
<1> USE DEF TypeOK
<1> DEFINE a == S[r]
<1>1. Serving = {} /\ UNCHANGED Standing
  BY OnlyServed DEF Standing
<1>2. CASE lease[a] # None
  <2>1. /\ handle' = [handle EXCEPT ![r] = lease[a]]
        /\ rpc' = [rpc EXCEPT ![r] = IF bound[a] THEN "speaking" ELSE "binding"]
    BY <1>2 DEF Acquire
  <2>2. Serving' = {<<a, lease[a]>>}
    <3>1. Serving' = {<<S[r], [handle EXCEPT ![r] = lease[a]][r]>>}
      BY <2>1, OnlyServedNext
    <3>2. QED
      BY <3>1
  <2>3. Manager!Serve(a)
    BY <1>1, <1>2, <2>2 DEF Manager!Serve
  <2>4. QED
    BY <2>3 DEF Manager!LeasesNext
<1>3. CASE lease[a] = None
  <2>1. rpc' = [rpc EXCEPT ![r] = "waiting"] /\ UNCHANGED handle
    BY <1>3 DEF Acquire
  <2>2. "waiting" \notin {"binding", "speaking"}
    OBVIOUS
  <2>3. rpc' = [rpc EXCEPT ![r] = "waiting"]
    BY <2>1
  <2>4. Serving' = {}
    BY <2>2, <2>3, OnlyServedNext
  <2>5. QED
    BY <1>1, <2>1, <2>4 DEF Manager!leaseVars
<1>4. QED
  BY <1>2, <1>3

\* Every step is one the manager may take, or nothing it promises changes.
LEMMA LeaseStep ==
    ASSUME TypeOK, IInv, OneRunInv, [Next]_vars
    PROVE  [Manager!LeasesNext]_(Manager!leaseVars)
<1> USE DEF TypeOK, IInv, OneRunInv
<1>1. ASSUME UNCHANGED <<lease, bound, deleting, cstate, rpc, speaker, handle>>
      PROVE  UNCHANGED Manager!leaseVars
  BY <1>1 DEF Manager!leaseVars, Serving, Standing
\* A step of the active run that leaves the table alone and uses no sandbox.
<1>2. ASSUME NEW r \in Run, rpc[r] \in Active, NEW p, rpc' = [rpc EXCEPT ![r] = p],
             ~ Uses(r), p \notin {"binding", "speaking"}
      PROVE  UNCHANGED Serving
  BY <1>2, OnlyServed, OnlyServedNext
<1>3. ASSUME NEW r \in Run, rpc[r] \in Active, NEW p, rpc' = [rpc EXCEPT ![r] = p],
             UNCHANGED <<lease, bound, deleting, cstate>>,
             p \notin {"binding", "speaking"}
      PROVE  [Manager!LeasesNext]_(Manager!leaseVars)
  <2>1. Serving' = {} /\ UNCHANGED Standing
    BY <1>3, OnlyServedNext DEF Standing
  <2>2. Manager!Rest
    BY <1>3, <2>1 DEF Manager!Rest
  <2>3. QED
    BY <2>2 DEF Manager!LeasesNext
<1>4. ASSUME NEW r \in Run, BeginRun(r) PROVE UNCHANGED Manager!leaseVars
  <2>1. /\ \A q \in Run : rpc'[q] \in {"binding", "speaking"} <=> rpc[q] \in {"binding", "speaking"}
        /\ UNCHANGED <<lease, bound, deleting, cstate, speaker, handle>>
    BY <1>4 DEF BeginRun, Goto
  <2>2. Serving' = Serving
    <3>1. {q \in Run : rpc'[q] \in {"binding", "speaking"}}
            = {q \in Run : rpc[q] \in {"binding", "speaking"}}
      BY <2>1
    <3>2. QED
      BY <2>1, <3>1 DEF Serving
  <2>3. QED
    BY <2>1, <2>2 DEF Manager!leaseVars, Standing
<1>5. ASSUME NEW r \in Run, NEW a \in Agent, BeginTurn(r, a)
      PROVE  [Manager!LeasesNext]_(Manager!leaseVars)
  <2>1. /\ rpc[r] = "routing" /\ speaker' = [speaker EXCEPT ![r] = a]
        /\ Acquire(r, a) /\ UNCHANGED <<lease, bound, deleting, cstate>>
    BY <1>5 DEF BeginTurn
  <2>2. [speaker EXCEPT ![r] = a][r] = a
    OBVIOUS
  <2>3. QED
    BY <2>1, <2>2, AcquireStep DEF Uses
<1>6. ASSUME NEW r \in Run, \/ \E c \in Claim : StartClaim(r, c)
                            \/ ClaimFails(r) \/ ClaimRefused(r)
      PROVE  [Manager!LeasesNext]_(Manager!leaseVars)
  <2>1. /\ rpc[r] \in {"waiting", "claiming"}
        /\ \E p \in {"claiming", "routing"} : rpc' = [rpc EXCEPT ![r] = p]
        /\ UNCHANGED <<lease, bound, deleting>>
    BY <1>6 DEF StartClaim, ClaimFails, ClaimRefused, Goto
  <2>2. UNCHANGED Serving
    BY <1>2, <2>1 DEF Uses
  <2>3. CASE UNCHANGED Standing
    BY <2>1, <2>2, <2>3 DEF Manager!leaseVars
  <2>4. ASSUME NEW c \in Claim, StartClaim(r, c) PROVE UNCHANGED Standing
    <3>1. cstate[c] = "free" /\ cstate' = [cstate EXCEPT ![c] = "making"]
      BY <2>4 DEF StartClaim, Fresh
    <3>2. QED
      BY <3>1, StandingNext DEF Standing
  <2>5. CASE ClaimRefused(r)
    BY <2>3, <2>5 DEF ClaimRefused, Standing
  <2>6. CASE ClaimFails(r)
    <3> DEFINE c == handle[r]
    <3>1. c \in Claim /\ c \notin Standing
      BY <2>6 DEF ClaimFails, Goto, Placed, OutOfReach, Standing
    <3>2. CASE cstate' = [cstate EXCEPT ![c] = "free"]
      <4>1. Standing' = Standing \ {c}
        BY <3>1, <3>2, StandingNext
      <4>2. QED
        BY <2>3, <3>1, <4>1
    <3>3. CASE cstate' = [cstate EXCEPT ![c] = "held"]
      <4>1. Standing' = Standing \union {c}
        BY <3>1, <3>3, StandingNext
      <4>2. Manager!Stray(c)
        BY <2>1, <2>2, <3>1, <4>1 DEF Manager!Stray
      <4>3. QED
        BY <3>1, <4>2 DEF Manager!LeasesNext
    <3>4. QED
      BY <2>6, <3>2, <3>3 DEF ClaimFails
  <2>7. QED
    BY <1>6, <2>3, <2>4, <2>5, <2>6
<1>7. ASSUME NEW r \in Run, Claimed(r) PROVE Manager!LeasesNext
  <2> DEFINE a == speaker[r]
             c == handle[r]
  <2>1. /\ rpc[r] = "claiming" /\ rpc' = [rpc EXCEPT ![r] = "binding"]
        /\ lease' = [lease EXCEPT ![a] = c]
        /\ bound' = [bound EXCEPT ![a] = FALSE]
        /\ cstate' = [cstate EXCEPT ![c] = "held"]
        /\ UNCHANGED <<deleting, speaker, handle>>
    BY <1>7 DEF Claimed, Goto
  <2>2. a \in Agent /\ c \in Claim /\ lease[a] = None
    BY <2>1 DEF Placed, TableTrusted
  <2>3. c \notin deleting \union Standing /\ \A b \in Agent : lease[b] # c
    BY <2>1, <2>2 DEF OutOfReach, Standing
  <2>4. Serving = {} /\ Serving' = {<<a, c>>}
    BY <2>1, OnlyServed, OnlyServedNext DEF Uses
  <2>5. Standing' = Standing \union {c}
    BY <2>1, <2>2, StandingNext
  <2>6. Manager!Grant(a, c)
    BY <2>1, <2>2, <2>3, <2>4, <2>5 DEF Manager!Grant
  <2>7. QED
    BY <2>2, <2>6 DEF Manager!LeasesNext
<1>8. ASSUME NEW r \in Run, Bind(r) PROVE Manager!LeasesNext
  <2> DEFINE a == speaker[r]
             c == handle[r]
  <2>1. /\ rpc[r] = "binding" /\ rpc' = [rpc EXCEPT ![r] = "speaking"]
        /\ bound' = [bound EXCEPT ![a] = lease[a] # None]
        /\ UNCHANGED <<lease, deleting, cstate, speaker, handle>>
    BY <1>8 DEF Bind, Goto
  <2>2. a \in Agent /\ c \in Claim /\ lease[a] = c
    BY <2>1 DEF Placed, TableTrusted
  <2>3. lease[a] # None
    BY <2>2
  <2>4. Serving = {<<a, lease[a]>>} /\ Serving' = Serving
    <3>1. Serving = {<<a, lease[a]>>}
      BY <2>1, <2>2, OnlyServed DEF Uses
    <3>2. Serving' = {<<speaker'[r], handle'[r]>>}
      BY <2>1, OnlyServedNext
    <3> QED BY <2>1, <2>2, <3>1, <3>2
  <2>5. bound' = [bound EXCEPT ![a] = TRUE]
    BY <2>1, <2>3, Zenon
  <2>6. Manager!MakeReady(a)
    BY <2>1, <2>4, <2>5 DEF Manager!MakeReady, Standing
  <2>7. QED
    BY <2>2, <2>6 DEF Manager!LeasesNext
<1>9. ASSUME NEW r \in Run, Speak(r) \/ Released(r) \/ Cut(r)
      PROVE  [Manager!LeasesNext]_(Manager!leaseVars)
  <2>1. /\ rpc[r] \in Active
        /\ \E p \in {"routing", "over", "cut"} : rpc' = [rpc EXCEPT ![r] = p]
        /\ UNCHANGED <<lease, bound, deleting, cstate>>
    BY <1>9 DEF Speak, Released, Cut, Goto
  <2>2. QED
    BY <1>3, <2>1
<1>10. ASSUME NEW r \in Run, TurnRaises(r) PROVE Manager!LeasesNext
  <2> DEFINE a == speaker[r]
  <2>1. /\ Uses(r) /\ rpc[r] \in Active
        /\ rpc' = [rpc EXCEPT ![r] = "invalidating"]
        /\ lease' = [lease EXCEPT ![a] = None]
        /\ bound' = [bound EXCEPT ![a] = FALSE]
        /\ deleting' = deleting \union ({lease[a]} \ {None})
        /\ UNCHANGED cstate
    BY <1>10 DEF TurnRaises, Uses
  <2>2. a \in Agent
    BY <2>1 DEF Placed, Uses
  <2>3. Serving = {<<a, handle[r]>>}
    BY <2>1, OnlyServed
  <2>4. Serving' = {} /\ \A use \in Serving : {a} = {use[1]}
    <3>1. Serving' = {}
      BY <2>1, OnlyServedNext
    <3>2. QED
      BY <2>3, <3>1
  <2>5. /\ lease' = [b \in Agent |-> IF b \in {a} THEN None ELSE lease[b]]
        /\ deleting' = deleting \union ({lease[b] : b \in {a}} \ {None})
    <3>1. {lease[b] : b \in {a}} = {lease[a]}
      OBVIOUS
    <3>2. lease' = [b \in Agent |-> IF b \in {a} THEN None ELSE lease[b]]
      BY <2>1, <2>2
    <3>3. QED
      BY <2>1, <3>1, <3>2
  <2>6. bound' = [b \in Agent |-> IF b \in {a} THEN FALSE ELSE bound[b]]
    <3>1. bound = [b \in Agent |-> bound[b]]
      OBVIOUS
    <3>2. \A b : b \in {a} <=> b = a
      OBVIOUS
    <3>3. [bound EXCEPT ![a] = FALSE] = [b \in Agent |-> IF b = a THEN FALSE ELSE bound[b]]
      BY <3>1, Zenon
    <3>4. QED
      BY <2>1, <3>2, <3>3, Zenon
  <2>7. Manager!GiveUp({a})
    BY <2>1, <2>3, <2>4, <2>5, <2>6 DEF Manager!GiveUp, Standing
  <2>8. QED
    BY <2>2, <2>7 DEF Manager!LeasesNext
<1>11. ASSUME NEW r \in Run, AfterInvalidate(r)
       PROVE  [Manager!LeasesNext]_(Manager!leaseVars)
  <2>1. rpc[r] = "invalidating" /\ UNCHANGED <<lease, bound, deleting, cstate, speaker>>
    BY <1>11 DEF AfterInvalidate
  <2>2. speaker[r] \in Agent
    BY <2>1 DEF Placed
  <2>3. CASE Acquire(r, speaker[r])
    BY <2>1, <2>2, <2>3, AcquireStep DEF Uses
  <2>4. CASE rpc' = [rpc EXCEPT ![r] = "routing"] /\ UNCHANGED handle
    <3>1. rpc[r] \in Active
      BY <2>1
    <3>2. UNCHANGED <<lease, bound, deleting, cstate>>
      BY <2>1
    <3>3. "routing" \notin {"binding", "speaking"}
      OBVIOUS
    <3>4. QED
      BY <1>3, <2>4, <3>1, <3>2, <3>3
  <2>5. QED
    BY <1>11, <2>3, <2>4 DEF AfterInvalidate
<1>12. ASSUME NEW r \in Run, Finish(r) PROVE Manager!LeasesNext
  <2>1. /\ rpc[r] = "routing" /\ rpc' = [rpc EXCEPT ![r] = "releasing"]
        /\ lease' = [a \in Agent |-> None]
        /\ bound' = [a \in Agent |-> FALSE]
        /\ deleting' = deleting \union Leased
        /\ UNCHANGED cstate
    BY <1>12 DEF Finish, Goto
  <2>2. Serving = {} /\ Serving' = {}
    <3>1. Serving = {}
      BY <2>1, OnlyServed DEF Uses
    <3>2. Serving' = {}
      BY <2>1, OnlyServedNext
    <3>3. QED
      BY <3>1, <3>2
  <2>3. /\ lease' = [b \in Agent |-> IF b \in Agent THEN None ELSE lease[b]]
        /\ deleting' = deleting \union ({lease[b] : b \in Agent} \ {None})
    BY <2>1
  <2>4. bound' = [b \in Agent |-> IF b \in Agent THEN FALSE ELSE bound[b]]
    BY <2>1
  <2>5. Manager!GiveUp(Agent)
    BY <2>1, <2>2, <2>3, <2>4 DEF Manager!GiveUp, Standing
  <2>6. QED
    BY <2>5 DEF Manager!LeasesNext
<1>13. ASSUME NEW c \in Claim, Cluster(c) PROVE [Manager!LeasesNext]_(Manager!leaseVars)
  <2>1. UNCHANGED <<lease, bound, rpc, speaker, handle>> /\ UNCHANGED Serving
    BY <1>13 DEF Cluster, AbandonedClaim, DeleteEnds, PodLost, PodStarts, Expire, Serving
  <2>2. CASE DeleteEnds(c)
    <3>1. deleting' = deleting \ {c}
      BY <2>2 DEF DeleteEnds
    <3>2. Standing' \in {Standing, Standing \ {c}}
      BY <2>2, StandingNext DEF DeleteEnds, Gone, Standing
    <3>3. Manager!Ended(c)
      BY <2>1, <3>1, <3>2 DEF Manager!Ended
    <3>4. QED
      BY <3>3 DEF Manager!LeasesNext
  <2>3. CASE AbandonedClaim(c)
    <3>1. cstate[c] = "making" /\ UNCHANGED deleting
      BY <2>3 DEF AbandonedClaim
    <3>2. CASE cstate' = [cstate EXCEPT ![c] = "free"]
      <4>1. UNCHANGED Standing
        BY <3>1, <3>2, StandingNext DEF Standing
      <4>2. QED
        BY <2>1, <3>1, <4>1 DEF Manager!leaseVars
    <3>3. CASE cstate' = [cstate EXCEPT ![c] = "held"]
      <4>1. c \notin Standing /\ Standing' = Standing \union {c}
        BY <3>1, <3>3, StandingNext DEF Standing
      <4>2. Manager!Stray(c)
        BY <2>1, <3>1, <4>1 DEF Manager!Stray
      <4>3. QED
        BY <4>2 DEF Manager!LeasesNext
    <3>4. QED
      BY <2>3, <3>2, <3>3 DEF AbandonedClaim
  <2>4. CASE Expire(c)
    <3>1. cstate' = [cstate EXCEPT ![c] = "free"] /\ UNCHANGED deleting
      BY <2>4 DEF Expire, Gone
    <3>2. Standing' = Standing \ {c}
      BY <3>1, StandingNext
    <3>3. Manager!Vanish(c)
      BY <2>1, <3>1, <3>2 DEF Manager!Vanish
    <3>4. QED
      BY <3>3 DEF Manager!LeasesNext
  <2>5. CASE PodLost(c) \/ PodStarts(c)
    BY <1>1, <2>5 DEF PodLost, PodStarts
  <2>6. QED
    BY <1>13, <2>2, <2>3, <2>4, <2>5 DEF Cluster
<1>14. CASE Restart
  <2>1. /\ lease' = [a \in Agent |-> None] /\ bound' = [a \in Agent |-> FALSE]
        /\ deleting' = {} /\ \A r \in Run : rpc'[r] \notin {"binding", "speaking"}
    BY <1>14 DEF Restart
  <2>2. Serving' = {}
    BY <2>1 DEF Serving
  <2>3. Standing \subseteq Standing'
    BY <1>14 DEF Restart, Standing
  <2>4. Manager!Forget
    BY <2>1, <2>2, <2>3 DEF Manager!Forget
  <2>5. QED
    BY <2>4 DEF Manager!LeasesNext
<1>15. CASE UNCHANGED vars
  BY <1>1, <1>15
<1>16. QED
  BY <1>4, <1>5, <1>6, <1>7, <1>8, <1>9, <1>10, <1>11, <1>12, <1>13, <1>14, <1>15
     DEF Next, RunStep

\* When runs take turns the sandbox manager implements Leases.
THEOREM ImplementsLeases == OneRunSpec => RefinesLeases
<1>1. Init => Manager!LeasesInit
  BY DEF Init, Manager!LeasesInit, Serving, Standing
<1>2. TypeOK /\ IInv /\ OneRunInv /\ [OneRunNext]_vars
        => [Manager!LeasesNext]_(Manager!leaseVars)
  <2>1. [OneRunNext]_vars => [Next]_vars
    BY DEF OneRunNext
  <2>2. QED
    BY <2>1, LeaseStep
<1>3. QED
  BY <1>1, <1>2, OneRunInvariance, PTL DEF OneRunSpec, RefinesLeases, Manager!LeasesSpec
=============================================================================
