-------------------------- MODULE SandboxesProofs --------------------------
(***************************************************************************)
(* Proofs about Sandboxes, for any attendees, runs, claims and restarts,   *)
(* overlapping runs included.  The inductive invariant is TypeOK with      *)
(* Placed, LockHeldWhileClaiming, OutOfReach, PodsStand, Labelled and      *)
(* LeasedNotDeleting.                                                      *)
(***************************************************************************)
EXTENDS Sandboxes, TLAPS

\* A turn has a speaker, and from its claim on a sandbox.
Placed ==
    /\ \A r \in Run : rpc[r] \in InTurn => speaker[r] \in Agent
    /\ \A r \in Run : rpc[r] \in {"claiming", "binding", "speaking"} =>
          handle[r] \in Claim

\* A claim that a run is making is out of everybody else's reach.
OutOfReach ==
    \A r \in Run : rpc[r] = "claiming" =>
        cstate[handle[r]] = "making" /\ handle[r] \notin Leased \union deleting

\* Only a claim that is held has a pod, and only a pod has a persona.
PodsStand ==
    \A c \in Claim :
        /\ c \in pods => cstate[c] = "held"
        /\ persona[c] # None => c \in pods

\* A leased claim, and one a turn goes to, is labelled with its own attendee.
Labelled ==
    /\ \A a \in Agent : lease[a] # None => label[lease[a]] = a
    /\ \A r \in Run : rpc[r] \in {"claiming", "binding", "speaking"} =>
          label[handle[r]] = speaker[r]
    /\ BoundUnderOwnLabel

USE NoneIsNew, RestartsBounded
USE DEF table, cloud, runs, hist, vars, InTurn, Active, ClaimState, Leased

\* No step takes a variable out of its type: what is claimed, leased and spoken to
\* is a claim because a turn past its claim has one.
LEMMA TypesInductive ==
    ASSUME TypeOK, Placed, [Next]_vars
    PROVE  TypeOK'
<1> USE DEF TypeOK, Placed
<1>1. ASSUME NEW r \in Run,
             BeginRun(r) \/ ClaimRefused(r) \/ Speak(r) \/ Released(r)
      PROVE  TypeOK'
  BY <1>1 DEF BeginRun, Goto, ClaimRefused, Speak, Released
<1>2. ASSUME NEW r \in Run, NEW a \in Agent, BeginTurn(r, a) PROVE TypeOK'
  BY <1>2 DEF BeginTurn, Acquire
<1>3. ASSUME NEW r \in Run, NEW c \in Claim, StartClaim(r, c) PROVE TypeOK'
  BY <1>3 DEF StartClaim, Goto
<1>4. ASSUME NEW r \in Run, Claimed(r) PROVE TypeOK'
  BY <1>4 DEF Claimed, Goto
<1>5. ASSUME NEW r \in Run, ClaimFails(r) PROVE TypeOK'
  BY <1>5 DEF ClaimFails, Goto
<1>6. ASSUME NEW r \in Run, Bind(r) PROVE TypeOK'
  BY <1>6 DEF Bind, Goto
<1>7. ASSUME NEW r \in Run, TurnRaises(r) PROVE TypeOK'
  BY <1>7 DEF TurnRaises
<1>8. ASSUME NEW r \in Run, AfterInvalidate(r) PROVE TypeOK'
  BY <1>8 DEF AfterInvalidate, Acquire
<1>9. ASSUME NEW r \in Run, Finish(r) PROVE TypeOK'
  BY <1>9 DEF Finish, Goto
<1>10. ASSUME NEW r \in Run, Cut(r) PROVE TypeOK'
  BY <1>10 DEF Cut
<1>11. ASSUME NEW c \in Claim, AbandonedClaim(c) \/ PodStarts(c) PROVE TypeOK'
  BY <1>11 DEF AbandonedClaim, PodStarts
<1>12. ASSUME NEW c \in Claim, DeleteEnds(c) \/ Expire(c) PROVE TypeOK'
  BY <1>12 DEF DeleteEnds, Gone, Expire
<1>13. ASSUME NEW c \in Claim, PodLost(c) PROVE TypeOK'
  BY <1>13 DEF PodLost
<1>14. CASE Restart
  BY <1>14 DEF Restart
<1>15. CASE UNCHANGED vars
  BY <1>15
<1>16. QED
  BY <1>1, <1>2, <1>3, <1>4, <1>5, <1>6, <1>7, <1>8, <1>9, <1>10, <1>11,
     <1>12, <1>13, <1>14, <1>15
     DEF Next, RunStep, Cluster

\* No step leaves a turn without its speaker or its sandbox.
LEMMA PlacedInductive ==
    ASSUME TypeOK, Placed, [Next]_vars
    PROVE  Placed'
<1> USE DEF TypeOK, Placed
<1>1. ASSUME NEW r \in Run,
             BeginRun(r) \/ ClaimRefused(r) \/ Speak(r) \/ Released(r)
      PROVE  Placed'
  BY <1>1 DEF BeginRun, Goto, ClaimRefused, Speak, Released
<1>2. ASSUME NEW r \in Run, NEW a \in Agent, BeginTurn(r, a) PROVE Placed'
  BY <1>2 DEF BeginTurn, Acquire
<1>3. ASSUME NEW r \in Run, NEW c \in Claim, StartClaim(r, c) PROVE Placed'
  BY <1>3 DEF StartClaim, Goto
<1>4. ASSUME NEW r \in Run, Claimed(r) PROVE Placed'
  BY <1>4 DEF Claimed, Goto
<1>5. ASSUME NEW r \in Run, ClaimFails(r) PROVE Placed'
  BY <1>5 DEF ClaimFails, Goto
<1>6. ASSUME NEW r \in Run, Bind(r) PROVE Placed'
  BY <1>6 DEF Bind, Goto
<1>7. ASSUME NEW r \in Run, TurnRaises(r) PROVE Placed'
  BY <1>7 DEF TurnRaises
<1>8. ASSUME NEW r \in Run, AfterInvalidate(r) PROVE Placed'
  BY <1>8 DEF AfterInvalidate, Acquire
<1>9. ASSUME NEW r \in Run, Finish(r) PROVE Placed'
  BY <1>9 DEF Finish, Goto
<1>10. ASSUME NEW r \in Run, Cut(r) PROVE Placed'
  BY <1>10 DEF Cut
<1>11. ASSUME NEW c \in Claim, AbandonedClaim(c) \/ PodStarts(c) PROVE Placed'
  BY <1>11 DEF AbandonedClaim, PodStarts
<1>12. ASSUME NEW c \in Claim, DeleteEnds(c) \/ Expire(c) PROVE Placed'
  BY <1>12 DEF DeleteEnds, Gone, Expire
<1>13. ASSUME NEW c \in Claim, PodLost(c) PROVE Placed'
  BY <1>13 DEF PodLost
<1>14. CASE Restart
  BY <1>14 DEF Restart
<1>15. CASE UNCHANGED vars
  BY <1>15
<1>16. QED
  BY <1>1, <1>2, <1>3, <1>4, <1>5, <1>6, <1>7, <1>8, <1>9, <1>10, <1>11,
     <1>12, <1>13, <1>14, <1>15
     DEF Next, RunStep, Cluster

\* The lock is taken by the step that begins a claim, and given back by every step
\* that leaves it, a cancellation and a restart included.
LEMMA LockInductive ==
    ASSUME TypeOK, LockHeldWhileClaiming, [Next]_vars
    PROVE  LockHeldWhileClaiming'
<1> USE DEF TypeOK, LockHeldWhileClaiming
<1>1. ASSUME NEW r \in Run,
             BeginRun(r) \/ ClaimRefused(r) \/ Speak(r) \/ Released(r)
      PROVE  LockHeldWhileClaiming'
  BY <1>1 DEF BeginRun, Goto, ClaimRefused, Speak, Released
<1>2. ASSUME NEW r \in Run, NEW a \in Agent,
             BeginTurn(r, a)
      PROVE  LockHeldWhileClaiming'
  BY <1>2 DEF BeginTurn, Acquire
<1>3. ASSUME NEW r \in Run, NEW c \in Claim,
             StartClaim(r, c)
      PROVE  LockHeldWhileClaiming'
  BY <1>3 DEF StartClaim, Goto
<1>4. ASSUME NEW r \in Run, Claimed(r) PROVE LockHeldWhileClaiming'
  BY <1>4 DEF Claimed, Goto
<1>5. ASSUME NEW r \in Run, ClaimFails(r) PROVE LockHeldWhileClaiming'
  BY <1>5 DEF ClaimFails, Goto
<1>6. ASSUME NEW r \in Run, Bind(r) PROVE LockHeldWhileClaiming'
  BY <1>6 DEF Bind, Goto
<1>7. ASSUME NEW r \in Run, TurnRaises(r) PROVE LockHeldWhileClaiming'
  BY <1>7 DEF TurnRaises
<1>8. ASSUME NEW r \in Run, AfterInvalidate(r) PROVE LockHeldWhileClaiming'
  BY <1>8 DEF AfterInvalidate, Acquire
<1>9. ASSUME NEW r \in Run, Finish(r) PROVE LockHeldWhileClaiming'
  BY <1>9 DEF Finish, Goto
<1>10. ASSUME NEW r \in Run, Cut(r) PROVE LockHeldWhileClaiming'
  BY <1>10 DEF Cut
<1>11. ASSUME NEW c \in Claim,
              AbandonedClaim(c) \/ PodStarts(c)
       PROVE  LockHeldWhileClaiming'
  BY <1>11 DEF AbandonedClaim, PodStarts
<1>12. ASSUME NEW c \in Claim,
              DeleteEnds(c) \/ Expire(c)
       PROVE  LockHeldWhileClaiming'
  BY <1>12 DEF DeleteEnds, Gone, Expire
<1>13. ASSUME NEW c \in Claim, PodLost(c) PROVE LockHeldWhileClaiming'
  BY <1>13 DEF PodLost
<1>14. CASE Restart
  BY <1>14 DEF Restart
<1>15. CASE UNCHANGED vars
  BY <1>15
<1>16. QED
  BY <1>1, <1>2, <1>3, <1>4, <1>5, <1>6, <1>7, <1>8, <1>9, <1>10, <1>11,
     <1>12, <1>13, <1>14, <1>15
     DEF Next, RunStep, Cluster

\* Only one run claims at a time, and only its own steps touch what it claims.
LEMMA OutOfReachInductive ==
    ASSUME TypeOK, Placed, LockHeldWhileClaiming, OutOfReach, [Next]_vars
    PROVE  OutOfReach'
<1> USE DEF TypeOK, Placed, LockHeldWhileClaiming, OutOfReach
<1>1. ASSUME NEW r \in Run,
             BeginRun(r) \/ ClaimRefused(r) \/ Speak(r) \/ Released(r)
      PROVE  OutOfReach'
  BY <1>1 DEF BeginRun, Goto, ClaimRefused, Speak, Released
<1>2. ASSUME NEW r \in Run, NEW a \in Agent, BeginTurn(r, a) PROVE OutOfReach'
  BY <1>2 DEF BeginTurn, Acquire
<1>3. ASSUME NEW r \in Run, NEW c \in Claim, StartClaim(r, c) PROVE OutOfReach'
  BY <1>3 DEF StartClaim, Goto, Fresh
<1>4. ASSUME NEW r \in Run, Claimed(r) PROVE OutOfReach'
  BY <1>4 DEF Claimed, Goto
<1>5. ASSUME NEW r \in Run, ClaimFails(r) PROVE OutOfReach'
  BY <1>5 DEF ClaimFails, Goto
<1>6. ASSUME NEW r \in Run, Bind(r) PROVE OutOfReach'
  BY <1>6 DEF Bind, Goto
<1>7. ASSUME NEW r \in Run, TurnRaises(r) PROVE OutOfReach'
  BY <1>7 DEF TurnRaises
<1>8. ASSUME NEW r \in Run, AfterInvalidate(r) PROVE OutOfReach'
  BY <1>8 DEF AfterInvalidate, Acquire
<1>9. ASSUME NEW r \in Run, Finish(r) PROVE OutOfReach'
  BY <1>9 DEF Finish, Goto
<1>10. ASSUME NEW r \in Run, Cut(r) PROVE OutOfReach'
  BY <1>10 DEF Cut
<1>11. ASSUME NEW c \in Claim, AbandonedClaim(c) \/ PodStarts(c) PROVE OutOfReach'
  BY <1>11 DEF AbandonedClaim, PodStarts
<1>12. ASSUME NEW c \in Claim, DeleteEnds(c) \/ Expire(c) PROVE OutOfReach'
  BY <1>12 DEF DeleteEnds, Gone, Expire
<1>13. ASSUME NEW c \in Claim, PodLost(c) PROVE OutOfReach'
  BY <1>13 DEF PodLost
<1>14. CASE Restart
  BY <1>14 DEF Restart
<1>15. CASE UNCHANGED vars
  BY <1>15
<1>16. QED
  BY <1>1, <1>2, <1>3, <1>4, <1>5, <1>6, <1>7, <1>8, <1>9, <1>10, <1>11,
     <1>12, <1>13, <1>14, <1>15
     DEF Next, RunStep, Cluster

\* Pods go with their claims, and personas with their pods.
LEMMA PodsInductive ==
    ASSUME TypeOK, Placed, OutOfReach, PodsStand, [Next]_vars
    PROVE  PodsStand'
<1> USE DEF TypeOK, Placed, OutOfReach, PodsStand
<1>1. ASSUME NEW r \in Run,
             BeginRun(r) \/ ClaimRefused(r) \/ Speak(r) \/ Released(r)
      PROVE  PodsStand'
  BY <1>1 DEF BeginRun, Goto, ClaimRefused, Speak, Released
<1>2. ASSUME NEW r \in Run, NEW a \in Agent, BeginTurn(r, a) PROVE PodsStand'
  BY <1>2 DEF BeginTurn, Acquire
<1>3. ASSUME NEW r \in Run, NEW c \in Claim, StartClaim(r, c) PROVE PodsStand'
  BY <1>3 DEF StartClaim, Goto, Fresh
<1>4. ASSUME NEW r \in Run, Claimed(r) PROVE PodsStand'
  BY <1>4 DEF Claimed, Goto
<1>5. ASSUME NEW r \in Run, ClaimFails(r) PROVE PodsStand'
  BY <1>5 DEF ClaimFails, Goto
<1>6. ASSUME NEW r \in Run, Bind(r) PROVE PodsStand'
  BY <1>6 DEF Bind, Goto
<1>7. ASSUME NEW r \in Run, TurnRaises(r) PROVE PodsStand'
  BY <1>7 DEF TurnRaises
<1>8. ASSUME NEW r \in Run, AfterInvalidate(r) PROVE PodsStand'
  BY <1>8 DEF AfterInvalidate, Acquire
<1>9. ASSUME NEW r \in Run, Finish(r) PROVE PodsStand'
  BY <1>9 DEF Finish, Goto
<1>10. ASSUME NEW r \in Run, Cut(r) PROVE PodsStand'
  BY <1>10 DEF Cut
<1>11. ASSUME NEW c \in Claim, AbandonedClaim(c) \/ PodStarts(c) PROVE PodsStand'
  BY <1>11 DEF AbandonedClaim, PodStarts
<1>12. ASSUME NEW c \in Claim, DeleteEnds(c) \/ Expire(c) PROVE PodsStand'
  BY <1>12 DEF DeleteEnds, Gone, Expire
<1>13. ASSUME NEW c \in Claim, PodLost(c) PROVE PodsStand'
  BY <1>13 DEF PodLost
<1>14. CASE Restart
  BY <1>14 DEF Restart
<1>15. CASE UNCHANGED vars
  BY <1>15
<1>16. QED
  BY <1>1, <1>2, <1>3, <1>4, <1>5, <1>6, <1>7, <1>8, <1>9, <1>10, <1>11,
     <1>12, <1>13, <1>14, <1>15
     DEF Next, RunStep, Cluster

\* A label is written once, when no lease, no turn and no persona refers to the
\* claim yet.
LEMMA LabelledInductive ==
    ASSUME TypeOK, Placed, PodsStand, Labelled, [Next]_vars
    PROVE  Labelled'
<1> USE DEF TypeOK, Placed, PodsStand, Labelled, BoundUnderOwnLabel
<1>1. ASSUME NEW r \in Run,
             BeginRun(r) \/ ClaimRefused(r) \/ Speak(r) \/ Released(r)
      PROVE  Labelled'
  BY <1>1 DEF BeginRun, Goto, ClaimRefused, Speak, Released
<1>2. ASSUME NEW r \in Run, NEW a \in Agent, BeginTurn(r, a) PROVE Labelled'
  BY <1>2 DEF BeginTurn, Acquire
<1>3. ASSUME NEW r \in Run, NEW c \in Claim, StartClaim(r, c) PROVE Labelled'
  BY <1>3 DEF StartClaim, Goto, Fresh
<1>4. ASSUME NEW r \in Run, Claimed(r) PROVE Labelled'
  BY <1>4 DEF Claimed, Goto
<1>5. ASSUME NEW r \in Run, ClaimFails(r) PROVE Labelled'
  BY <1>5 DEF ClaimFails, Goto
<1>6. ASSUME NEW r \in Run, Bind(r) PROVE Labelled'
  BY <1>6 DEF Bind, Goto
<1>7. ASSUME NEW r \in Run, TurnRaises(r) PROVE Labelled'
  BY <1>7 DEF TurnRaises
<1>8. ASSUME NEW r \in Run, AfterInvalidate(r) PROVE Labelled'
  BY <1>8 DEF AfterInvalidate, Acquire
<1>9. ASSUME NEW r \in Run, Finish(r) PROVE Labelled'
  BY <1>9 DEF Finish, Goto
<1>10. ASSUME NEW r \in Run, Cut(r) PROVE Labelled'
  BY <1>10 DEF Cut
<1>11. ASSUME NEW c \in Claim, AbandonedClaim(c) \/ PodStarts(c) PROVE Labelled'
  BY <1>11 DEF AbandonedClaim, PodStarts
<1>12. ASSUME NEW c \in Claim, DeleteEnds(c) \/ Expire(c) PROVE Labelled'
  BY <1>12 DEF DeleteEnds, Gone, Expire
<1>13. ASSUME NEW c \in Claim, PodLost(c) PROVE Labelled'
  BY <1>13 DEF PodLost
<1>14. CASE Restart
  BY <1>14 DEF Restart
<1>15. CASE UNCHANGED vars
  BY <1>15
<1>16. QED
  BY <1>1, <1>2, <1>3, <1>4, <1>5, <1>6, <1>7, <1>8, <1>9, <1>10, <1>11,
     <1>12, <1>13, <1>14, <1>15
     DEF Next, RunStep, Cluster

\* What is given up was leased to one attendee only, since it carries one label;
\* what is leased anew was out of reach.
LEMMA LeasesInductive ==
    ASSUME TypeOK, Placed, OutOfReach, Labelled, LeasedNotDeleting, [Next]_vars
    PROVE  LeasedNotDeleting'
<1> USE DEF TypeOK, Placed, OutOfReach, Labelled, LeasedNotDeleting
<1>1. ASSUME NEW r \in Run,
             BeginRun(r) \/ ClaimRefused(r) \/ Speak(r) \/ Released(r)
      PROVE  LeasedNotDeleting'
  BY <1>1 DEF BeginRun, Goto, ClaimRefused, Speak, Released
<1>2. ASSUME NEW r \in Run, NEW a \in Agent,
             BeginTurn(r, a)
      PROVE  LeasedNotDeleting'
  BY <1>2 DEF BeginTurn, Acquire
<1>3. ASSUME NEW r \in Run, NEW c \in Claim,
             StartClaim(r, c)
      PROVE  LeasedNotDeleting'
  BY <1>3 DEF StartClaim, Goto, Fresh
<1>4. ASSUME NEW r \in Run, Claimed(r) PROVE LeasedNotDeleting'
  BY <1>4 DEF Claimed, Goto
<1>5. ASSUME NEW r \in Run, ClaimFails(r) PROVE LeasedNotDeleting'
  BY <1>5 DEF ClaimFails, Goto
<1>6. ASSUME NEW r \in Run, Bind(r) PROVE LeasedNotDeleting'
  BY <1>6 DEF Bind, Goto
<1>7. ASSUME NEW r \in Run, TurnRaises(r) PROVE LeasedNotDeleting'
  BY <1>7 DEF TurnRaises
<1>8. ASSUME NEW r \in Run, AfterInvalidate(r) PROVE LeasedNotDeleting'
  BY <1>8 DEF AfterInvalidate, Acquire
<1>9. ASSUME NEW r \in Run, Finish(r) PROVE LeasedNotDeleting'
  BY <1>9 DEF Finish, Goto
<1>10. ASSUME NEW r \in Run, Cut(r) PROVE LeasedNotDeleting'
  BY <1>10 DEF Cut
<1>11. ASSUME NEW c \in Claim,
              AbandonedClaim(c) \/ PodStarts(c)
       PROVE  LeasedNotDeleting'
  BY <1>11 DEF AbandonedClaim, PodStarts
<1>12. ASSUME NEW c \in Claim, DeleteEnds(c) \/ Expire(c) PROVE LeasedNotDeleting'
  BY <1>12 DEF DeleteEnds, Gone, Expire
<1>13. ASSUME NEW c \in Claim, PodLost(c) PROVE LeasedNotDeleting'
  BY <1>13 DEF PodLost
<1>14. CASE Restart
  BY <1>14 DEF Restart
<1>15. CASE UNCHANGED vars
  BY <1>15
<1>16. QED
  BY <1>1, <1>2, <1>3, <1>4, <1>5, <1>6, <1>7, <1>8, <1>9, <1>10, <1>11,
     <1>12, <1>13, <1>14, <1>15
     DEF Next, RunStep, Cluster

\* The inductive invariant of Sandboxes.
IInv ==
    /\ Placed
    /\ LockHeldWhileClaiming
    /\ OutOfReach
    /\ PodsStand
    /\ Labelled
    /\ LeasedNotDeleting

\* Every reachable state satisfies the inductive invariant.
THEOREM Invariance == Spec => [](TypeOK /\ IInv)
<1>1. Init => TypeOK /\ IInv
  BY DEF Init, TypeOK, IInv, Placed, LockHeldWhileClaiming, OutOfReach, PodsStand,
         Labelled, BoundUnderOwnLabel, LeasedNotDeleting
<1>2. TypeOK /\ IInv /\ [Next]_vars => (TypeOK /\ IInv)'
  BY TypesInductive, PlacedInductive, LockInductive, OutOfReachInductive,
     PodsInductive, LabelledInductive, LeasesInductive DEF IInv
<1>3. QED
  BY <1>1, <1>2, PTL DEF Spec

\* The types hold in every reachable state.
THEOREM Typing == Spec => []TypeOK
BY Invariance, PTL

\* A persona is only ever bound into a pod that carries its own label.
THEOREM BoundUnderItsLabel == Spec => []BoundUnderOwnLabel
<1>1. IInv => BoundUnderOwnLabel
  BY DEF IInv, Labelled
<1>2. QED
  BY <1>1, Invariance, PTL

\* A lease that was given up is never handed out again.
THEOREM GivenUpForGood == Spec => []LeasedNotDeleting
<1>1. IInv => LeasedNotDeleting
  BY DEF IInv
<1>2. QED
  BY <1>1, Invariance, PTL

\* The lock belongs to a run that is claiming, and to no other.
THEOREM LockIsGivenBack == Spec => []LockHeldWhileClaiming
<1>1. IInv => LockHeldWhileClaiming
  BY DEF IInv
<1>2. QED
  BY <1>1, Invariance, PTL
=============================================================================
