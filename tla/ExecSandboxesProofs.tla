------------------------ MODULE ExecSandboxesProofs ------------------------
(***************************************************************************)
(* Proofs about ExecSandboxes, for any calls, callers, profiles, sandboxes *)
(* and times.  The inductive invariant is TypeOK with Placed, Permitted,   *)
(* Tokens, Timed, Closing and Answering.                                   *)
(***************************************************************************)
EXTENDS ExecSandboxes, ProfilesProofs

\* What a call holds where it is: the name it read, a token, a claim.
Placed ==
    /\ \A c \in Call :
         /\ pc[c] \in {"naming", "posting", "posted"} => target[c] \in Name
         /\ pc[c] = "posting" => token[c] # 0
         /\ pc[c] \in {"idle", "claiming", "orphaning"} => claim[c] = "none"
         /\ pc[c] \in {"waiting", "routing", "naming", "posting", "posted"} =>
               claim[c] # "none"
         /\ claim[c] = "bound" => at[c] \in Name
         /\ job[c] # NoJob => claim[c] # "none" /\ job[c].uid # 0
    /\ \A n \in Name : box[n] # Gone => box[n].uid # 0

\* Who got how far: an offer of the tool to begin, the Role to claim.
Permitted ==
    \A c \in Call :
        /\ pc[c] # "idle" => PYTHON \in Offered(caller[c])
        /\ claim[c] # "none" => pc[c] # "idle" /\ caller[c] \in RoleBinding

\* A UID is given out once, and a token or a job of a call not in crossed names
\* the sandbox made for its claim, or one that is gone.
Tokens ==
    /\ \A n \in Name : box[n].uid <= uids
    /\ \A m, n \in Name : box[n].uid # 0 /\ box[m].uid = box[n].uid => m = n
    /\ \A c \in Call :
         /\ token[c] <= uids /\ job[c].uid <= uids
         /\ \A n \in Name : box[n].uid # 0 /\ box[n].uid \in {token[c], job[c].uid}
               => box[n].of = c \/ c \in crossed

\* A claim is no older than the age its call's job was posted at and the time the
\* job has had; one that expired under its call is at the deadline.
Timed ==
    /\ \A c \in Call :
         /\ claim[c] = "deleting" /\ pc[c] \in {"waiting", "routing", "naming", "posting"}
               => age[c] = Deadline
         /\ pc[c] = "posted" /\ job[c] # NoJob /\ claim[c] \in Live
               => age[c] <= job[c].posted + job[c].clock
    /\ PromptJobsSpared

\* What a call leaves behind once it has released.
Closing ==
    /\ \A c \in Call :
         /\ pc[c] \in {"writing", "over"} /\ claim[c] \in Live => c \in left
         /\ pc[c] = "orphaning" => answer[c] # "ok"
    /\ OkMeansAllWritten

\* A call that has ended, or is about to, has its answer, and none before.
Answering ==
    \A c \in Call :
        /\ pc[c] \in {"idle", "claiming", "waiting", "routing", "naming", "posting", "posted"}
              => answer[c] = "none"
        /\ pc[c] \in {"orphaning", "releasing", "writing", "over"} => answer[c] # "none"
        /\ pc[c] = "writing" => answer[c] = "ok"

USE TimesPositive, ExecBounds, NoneNew
USE DEF vars, tier, route, work, past, Live, Deadline, ClientTimeout

\* No step takes a variable out of its type.
LEMMA TypesInductive ==
    ASSUME TypeOK, Placed, [Next]_vars
    PROVE  TypeOK'
<1> USE DEF TypeOK, Placed, Steps, Answer
<1>1. ASSUME NEW c \in Call, NEW a \in Caller, Begin(c, a) PROVE TypeOK'
  BY <1>1 DEF Begin, Goto
<1>2. ASSUME NEW c \in Call, ClaimRefused(c) \/ ClaimCreated(c), UNCHANGED caller
      PROVE  TypeOK'
  <2>1. CASE ClaimRefused(c)
    BY <1>2, <2>1 DEF ClaimRefused, Goto, Answers
  <2>2. CASE ClaimCreated(c)
    BY <1>2, <2>2 DEF ClaimCreated, Goto
  <2> QED BY <1>2, <2>1, <2>2
<1>3. ASSUME NEW c \in Call, ClaimFails(c) \/ Claimed(c), UNCHANGED caller PROVE TypeOK'
  <2>1. CASE ClaimFails(c)
    BY <1>3, <2>1 DEF ClaimFails, Goto, Answers, Leave
  <2>2. CASE Claimed(c)
    BY <1>3, <2>2 DEF Claimed, Goto
  <2> QED BY <1>3, <2>1, <2>2
<1>4. ASSUME NEW c \in Call, TokenClaimRead(c) \/ TokenMinted(c), UNCHANGED caller
      PROVE  TypeOK'
  <2>1. CASE TokenClaimRead(c)
    BY <2>1, <1>4 DEF TokenClaimRead, Goto
  <2>2. CASE TokenMinted(c)
    BY <2>2, <1>4 DEF TokenMinted, Goto
  <2> QED BY <1>4, <2>1, <2>2
<1>5. ASSUME NEW c \in Call,
             TokenRefused(c) \/ TokenFails(c) \/ PostFails(c) \/ ClientGivesUp(c), UNCHANGED caller
      PROVE  TypeOK'
  <2>1. CASE TokenRefused(c)
    BY <1>5, <2>1 DEF TokenRefused, Return, Goto, Answers
  <2>2. CASE TokenFails(c)
    BY <1>5, <2>2 DEF TokenFails, Return, Goto, Answers
  <2>3. CASE PostFails(c)
    BY <1>5, <2>3 DEF PostFails, Return, Goto, Answers
  <2>4. CASE ClientGivesUp(c)
    BY <1>5, <2>4 DEF ClientGivesUp, Return, Goto, Answers
  <2> QED BY <1>5, <2>1, <2>2, <2>3, <2>4
<1>6. ASSUME NEW c \in Call, Post(c), UNCHANGED caller PROVE TypeOK'
  BY <1>6 DEF Post, Start, Goto
<1>7. ASSUME NEW c \in Call, JobEnds(c) \/ JobBreaks(c), UNCHANGED caller PROVE TypeOK'
  <2>1. CASE JobEnds(c)
    BY <1>7, <2>1 DEF JobEnds, NoJob, Return, Goto, Answers
  <2>2. CASE JobBreaks(c)
    BY <1>7, <2>2 DEF JobBreaks, NoJob, Return, Goto, Answers
  <2> QED BY <1>7, <2>1, <2>2
<1>8. ASSUME NEW c \in Call, JobEndsUnread(c), UNCHANGED caller PROVE TypeOK'
  BY <1>8 DEF JobEndsUnread, NoJob
<1>9. ASSUME NEW c \in Call, Release(c) \/ ReleaseFails(c), UNCHANGED caller PROVE TypeOK'
  BY <1>9 DEF Release, ReleaseFails, Goto, After, Leave
<1>10. ASSUME NEW c \in Call, WriteArtifact(c) \/ WriterFails(c) \/ Finish(c), UNCHANGED caller
       PROVE  TypeOK'
  <2>1. CASE WriteArtifact(c)
    BY <1>10, <2>1 DEF WriteArtifact
  <2>2. CASE WriterFails(c)
    BY <1>10, <2>2 DEF WriterFails, Goto, Answers
  <2>3. CASE Finish(c)
    BY <1>10, <2>3 DEF Finish, Goto
  <2> QED BY <1>10, <2>1, <2>2, <2>3
<1>11. ASSUME NEW c \in Call, Cancel(c), UNCHANGED caller PROVE TypeOK'
  <2>1. pc' \in [Call -> Steps] /\ answer' \in [Call -> Answer] /\ left' \subseteq Call
    BY <1>11 DEF Cancel, Return, Goto, Answers, Leave
  <2>2. target' \in [Call -> Name \union {None}] /\ token' \in [Call -> 0..MaxUid]
    BY <1>11 DEF Cancel, Return
  <2>3. waited' \in [Call -> 0..ClientTimeout]
    BY <1>11 DEF Cancel, Return
  <2>4. UNCHANGED <<claim, age, at, box, uids, job, files, written, crossed>>
    BY <1>11 DEF Cancel
  <2> QED BY <1>11, <2>1, <2>2, <2>3, <2>4
<1>12. ASSUME NEW c \in Call, Orphan(c), UNCHANGED caller PROVE TypeOK'
  BY <1>12 DEF Orphan, Goto
<1>13. ASSUME NEW a \in Caller, Evict(a), UNCHANGED caller PROVE TypeOK'
  BY <1>13 DEF Evict, Leave
<1>14. ASSUME NEW c \in Call, NEW n \in Name, Adopt(c, n), UNCHANGED caller PROVE TypeOK'
  BY <1>14 DEF Adopt, Gone
<1>15. ASSUME NEW c \in Call, Lose(c), UNCHANGED caller PROVE TypeOK'
  BY <1>15 DEF Lose, Tear, Gone, NoJob
<1>16. ASSUME NEW c \in Call, Collect(c), UNCHANGED caller PROVE TypeOK'
  <2>1. CASE at[c] = None
    BY <1>16, <2>1 DEF Collect
  <2>2. CASE at[c] # None
    <3>1. /\ claim' = [claim EXCEPT ![c] = "gone"]
          /\ age' = [age EXCEPT ![c] = 0]
          /\ at' = [at EXCEPT ![c] = None]
          /\ box' = [box EXCEPT ![at[c]] = Gone]
          /\ job' = [d \in Call |-> IF job[d].uid = box[at[c]].uid THEN NoJob ELSE job[d]]
      BY <1>16, <2>2 DEF Collect, Tear
    <3>2. UNCHANGED <<caller, pc, answer, uids, target, token, waited, files, written, left, crossed>>
      BY <1>16 DEF Collect
    <3>3. /\ Gone \in [uid : 0..MaxUid, of : Call \union {None}]
          /\ NoJob \in [uid : 0..MaxUid, clock : 0..MaxWall, posted : 0..Deadline]
      BY DEF Gone, NoJob
    <3> HIDE DEF Placed
    <3>4. box' \in [Name -> [uid : 0..MaxUid, of : Call \union {None}]]
      BY <3>1, <3>3
    <3>5. job' \in [Call -> [uid : 0..MaxUid, clock : 0..MaxWall, posted : 0..Deadline]]
      BY <3>1, <3>3
    <3> QED BY <3>1, <3>2, <3>4, <3>5
  <2> QED BY <2>1, <2>2
<1>17. ASSUME NEW c \in Call, Expire(c), UNCHANGED caller PROVE TypeOK'
  BY <1>17 DEF Expire
<1>18. ASSUME Tick, UNCHANGED caller PROVE TypeOK'
  <2>1. age' \in [Call -> 0..Deadline]
    BY <1>18 DEF Tick
  <2>2. waited' \in [Call -> 0..ClientTimeout]
    BY <1>18 DEF Tick
  <2>3. job' \in [Call -> [uid : 0..MaxUid, clock : 0..MaxWall, posted : 0..Deadline]]
    <3>1. ASSUME NEW c \in Call
          PROVE  [job[c] EXCEPT !.clock = @ + 1]
                    \in [uid : 0..MaxUid, clock : 0..MaxWall, posted : 0..Deadline]
      <4>1. job[c].clock < MaxWall
        BY <1>18 DEF Tick
      <4> QED BY <4>1
    <3> QED BY <1>18, <3>1 DEF Tick
  <2>4. UNCHANGED <<caller, pc, answer, claim, at, box, uids, target, token, files, written,
                    left, crossed>>
    BY <1>18 DEF Tick
  <2> QED BY <2>1, <2>2, <2>3, <2>4
<1>19. CASE UNCHANGED vars
  BY <1>19
<1>20. QED
  BY <1>1, <1>2, <1>3, <1>4, <1>5, <1>6, <1>7, <1>8, <1>9,
     <1>10, <1>11, <1>12, <1>13, <1>14, <1>15, <1>16, <1>17, <1>18, <1>19
     DEF Next, CallStep, Cluster

\* A step of a call finds what the steps before it left.
LEMMA PlacedInductive ==
    ASSUME TypeOK, Placed, [Next]_vars
    PROVE  Placed'
<1> USE DEF TypeOK, Placed, NoJob, Gone
<1>1. ASSUME NEW c \in Call, NEW a \in Caller, Begin(c, a) PROVE Placed'
  BY <1>1 DEF Begin, Goto
<1>2. ASSUME NEW c \in Call, ClaimRefused(c) \/ ClaimCreated(c), UNCHANGED caller
      PROVE  Placed'
  BY <1>2 DEF ClaimRefused, ClaimCreated, Goto, Answers
<1>3. ASSUME NEW c \in Call, ClaimFails(c) \/ Claimed(c), UNCHANGED caller PROVE Placed'
  BY <1>3 DEF ClaimFails, Claimed, Goto, Answers, Leave
<1>4. ASSUME NEW c \in Call, TokenClaimRead(c) \/ TokenMinted(c), UNCHANGED caller
      PROVE  Placed'
  BY <1>4 DEF TokenClaimRead, TokenMinted, Goto
<1>5. ASSUME NEW c \in Call,
             TokenRefused(c) \/ TokenFails(c) \/ PostFails(c) \/ ClientGivesUp(c), UNCHANGED caller
      PROVE  Placed'
  <2>1. pc' = [pc EXCEPT ![c] = "releasing"]
    BY <1>5 DEF TokenRefused, TokenFails, PostFails, ClientGivesUp, Return, Goto
  <2>2. token' = [token EXCEPT ![c] = 0] /\ target' = [target EXCEPT ![c] = None]
    BY <1>5 DEF TokenRefused, TokenFails, PostFails, ClientGivesUp, Return
  <2>3. UNCHANGED <<claim, at, box, job>>
    BY <1>5 DEF TokenRefused, TokenFails, PostFails, ClientGivesUp
  <2> QED BY <2>1, <2>2, <2>3
<1>6. ASSUME NEW c \in Call, Post(c), UNCHANGED caller PROVE Placed'
  BY <1>6 DEF Post, Start, Goto
<1>7. ASSUME NEW c \in Call, JobEnds(c) \/ JobBreaks(c), UNCHANGED caller PROVE Placed'
  BY <1>7 DEF JobEnds, JobBreaks, Return, Goto, Answers, NoJob
<1>8. ASSUME NEW c \in Call, JobEndsUnread(c), UNCHANGED caller PROVE Placed'
  BY <1>8 DEF JobEndsUnread, NoJob
<1>9. ASSUME NEW c \in Call, Release(c) \/ ReleaseFails(c), UNCHANGED caller PROVE Placed'
  BY <1>9 DEF Release, ReleaseFails, Goto, After, Leave
<1>10. ASSUME NEW c \in Call, WriteArtifact(c) \/ WriterFails(c) \/ Finish(c), UNCHANGED caller
       PROVE  Placed'
  BY <1>10 DEF WriteArtifact, WriterFails, Finish, Goto, Answers
<1>11. ASSUME NEW c \in Call, Cancel(c), UNCHANGED caller PROVE Placed'
  BY <1>11 DEF Cancel, Return, Goto, Answers, Leave
<1>12. ASSUME NEW c \in Call, Orphan(c), UNCHANGED caller PROVE Placed'
  BY <1>12 DEF Orphan, Goto
<1>13. ASSUME NEW a \in Caller, Evict(a), UNCHANGED caller PROVE Placed'
  BY <1>13 DEF Evict, Leave
<1>14. ASSUME NEW c \in Call, NEW n \in Name, Adopt(c, n), UNCHANGED caller PROVE Placed'
  BY <1>14 DEF Adopt, Gone
<1>15. ASSUME NEW c \in Call, Lose(c), UNCHANGED caller PROVE Placed'
  BY <1>15 DEF Lose, Tear, Gone, NoJob
<1>16. ASSUME NEW c \in Call, Collect(c), UNCHANGED caller PROVE Placed'
  <2>1. CASE at[c] = None
    BY <1>16, <2>1 DEF Collect
  <2>2. CASE at[c] # None
    <3>1. \A d \in Call : job'[d] = job[d] \/ job'[d] = NoJob
      BY <1>16, <2>2 DEF Collect, Tear
    <3>2. \A n \in Name : box'[n] = box[n] \/ box'[n] = Gone
      BY <1>16, <2>2 DEF Collect, Tear
    <3>3. /\ claim[c] = "deleting" /\ claim' = [claim EXCEPT ![c] = "gone"]
          /\ at' = [at EXCEPT ![c] = None]
          /\ UNCHANGED <<pc, target, token>>
      BY <1>16 DEF Collect
    <3> QED BY <3>1, <3>2, <3>3
  <2> QED BY <2>1, <2>2
<1>17. ASSUME NEW c \in Call, Expire(c), UNCHANGED caller PROVE Placed'
  BY <1>17 DEF Expire
<1>18. ASSUME Tick, UNCHANGED caller PROVE Placed'
  BY <1>18 DEF Tick, NoJob
<1>19. CASE UNCHANGED vars
  BY <1>19
<1>20. QED
  BY <1>1, <1>2, <1>3, <1>4, <1>5, <1>6, <1>7, <1>8, <1>9,
     <1>10, <1>11, <1>12, <1>13, <1>14, <1>15, <1>16, <1>17, <1>18, <1>19
     DEF Next, CallStep, Cluster

\* The Role is asked for every claim, and the offer for every call.
LEMMA PermittedInductive ==
    ASSUME TypeOK, Placed, Permitted, [Next]_vars
    PROVE  Permitted'
<1> USE DEF TypeOK, Placed, Permitted
<1>1. ASSUME NEW c \in Call, NEW a \in Caller, Begin(c, a) PROVE Permitted'
  BY <1>1 DEF Begin, Goto
<1>2. ASSUME NEW c \in Call, ClaimRefused(c) \/ ClaimCreated(c), UNCHANGED caller
      PROVE  Permitted'
  BY <1>2 DEF ClaimRefused, ClaimCreated, Goto, Answers
<1>3. ASSUME NEW c \in Call, ClaimFails(c) \/ Claimed(c), UNCHANGED caller
      PROVE  Permitted'
  BY <1>3 DEF ClaimFails, Claimed, Goto, Answers, Leave
<1>4. ASSUME NEW c \in Call, TokenClaimRead(c) \/ TokenMinted(c), UNCHANGED caller
      PROVE  Permitted'
  BY <1>4 DEF TokenClaimRead, TokenMinted, Goto
<1>5. ASSUME NEW c \in Call,
             TokenRefused(c) \/ TokenFails(c) \/ PostFails(c) \/ ClientGivesUp(c), UNCHANGED caller
      PROVE  Permitted'
  BY <1>5 DEF TokenRefused, TokenFails, PostFails, ClientGivesUp, Return, Goto, Answers
<1>6. ASSUME NEW c \in Call, Post(c), UNCHANGED caller PROVE Permitted'
  BY <1>6 DEF Post, Start, Goto
<1>7. ASSUME NEW c \in Call, JobEnds(c) \/ JobBreaks(c), UNCHANGED caller PROVE Permitted'
  BY <1>7 DEF JobEnds, JobBreaks, Return, Goto, Answers, NoJob
<1>8. ASSUME NEW c \in Call, JobEndsUnread(c), UNCHANGED caller PROVE Permitted'
  BY <1>8 DEF JobEndsUnread, NoJob
<1>9. ASSUME NEW c \in Call, Release(c) \/ ReleaseFails(c), UNCHANGED caller
      PROVE  Permitted'
  BY <1>9 DEF Release, ReleaseFails, Goto, After, Leave
<1>10. ASSUME NEW c \in Call, WriteArtifact(c) \/ WriterFails(c) \/ Finish(c), UNCHANGED caller
       PROVE  Permitted'
  BY <1>10 DEF WriteArtifact, WriterFails, Finish, Goto, Answers
<1>11. ASSUME NEW c \in Call, Cancel(c), UNCHANGED caller PROVE Permitted'
  BY <1>11 DEF Cancel, Return, Goto, Answers, Leave
<1>12. ASSUME NEW c \in Call, Orphan(c), UNCHANGED caller PROVE Permitted'
  BY <1>12 DEF Orphan, Goto
<1>13. ASSUME NEW a \in Caller, Evict(a), UNCHANGED caller PROVE Permitted'
  BY <1>13 DEF Evict, Leave
<1>14. ASSUME NEW c \in Call, NEW n \in Name, Adopt(c, n), UNCHANGED caller
       PROVE  Permitted'
  BY <1>14 DEF Adopt, Gone
<1>15. ASSUME NEW c \in Call, Lose(c), UNCHANGED caller PROVE Permitted'
  BY <1>15 DEF Lose, Tear, Gone, NoJob
<1>16. ASSUME NEW c \in Call, Collect(c), UNCHANGED caller PROVE Permitted'
  BY <1>16 DEF Collect, Tear, Gone, NoJob
<1>17. ASSUME NEW c \in Call, Expire(c), UNCHANGED caller PROVE Permitted'
  BY <1>17 DEF Expire
<1>18. ASSUME Tick, UNCHANGED caller PROVE Permitted'
  BY <1>18 DEF Tick, NoJob
<1>19. CASE UNCHANGED vars
  BY <1>19
<1>20. QED
  BY <1>1, <1>2, <1>3, <1>4, <1>5, <1>6, <1>7, <1>8, <1>9,
     <1>10, <1>11, <1>12, <1>13, <1>14, <1>15, <1>16, <1>17, <1>18, <1>19
     DEF Next, CallStep, Cluster

\* Only a token read off another claim's sandbox names it.
LEMMA TokensInductive ==
    ASSUME TypeOK, Placed, Tokens, [Next]_vars
    PROVE  Tokens'
<1> USE DEF TypeOK, Placed, Tokens, NoJob, Gone
<1>1. ASSUME NEW c \in Call, NEW a \in Caller, Begin(c, a) PROVE Tokens'
  BY <1>1 DEF Begin, Goto
<1>2. ASSUME NEW c \in Call, ClaimRefused(c) \/ ClaimCreated(c), UNCHANGED caller
      PROVE  Tokens'
  BY <1>2 DEF ClaimRefused, ClaimCreated, Goto, Answers
<1>3. ASSUME NEW c \in Call, ClaimFails(c) \/ Claimed(c), UNCHANGED caller PROVE Tokens'
  BY <1>3 DEF ClaimFails, Claimed, Goto, Answers, Leave
<1>4. ASSUME NEW c \in Call, TokenClaimRead(c) \/ TokenMinted(c), UNCHANGED caller
      PROVE  Tokens'
  <2>1. CASE TokenClaimRead(c)
    BY <1>4, <2>1 DEF TokenClaimRead, Goto
  <2>2. CASE TokenMinted(c)
    <3>1. target[c] \in Name /\ box[target[c]].uid # 0
      BY <2>2 DEF TokenMinted, Goto
    <3>2. ASSUME NEW n \in Name, box[n].uid = box[target[c]].uid PROVE n = target[c]
      BY <3>1, <3>2
    <3>3. crossed \subseteq crossed' /\ (box[target[c]].of = c \/ c \in crossed')
      BY <2>2 DEF TokenMinted
    <3>4. /\ UNCHANGED <<box, uids, job>>
          /\ token' = [token EXCEPT ![c] = box[target[c]].uid]
      BY <2>2 DEF TokenMinted
    <3>5. box[target[c]].uid <= uids
      BY <3>1
    <3> HIDE DEF TypeOK
    <3>6. \A d \in Call : token'[d] = IF d = c THEN box[target[c]].uid ELSE token[d]
      BY <3>4 DEF TypeOK
    <3> QED BY <3>1, <3>2, <3>3, <3>4, <3>5, <3>6
  <2> QED BY <1>4, <2>1, <2>2
<1>5. ASSUME NEW c \in Call,
             TokenRefused(c) \/ TokenFails(c) \/ PostFails(c) \/ ClientGivesUp(c), UNCHANGED caller
      PROVE  Tokens'
  BY <1>5 DEF TokenRefused, TokenFails, PostFails, ClientGivesUp, Return, Goto, Answers
<1>6. ASSUME NEW c \in Call, Post(c), UNCHANGED caller PROVE Tokens'
  BY <1>6 DEF Post, Start, Goto
<1>7. ASSUME NEW c \in Call, JobEnds(c) \/ JobBreaks(c), UNCHANGED caller PROVE Tokens'
  BY <1>7 DEF JobEnds, JobBreaks, Return, Goto, Answers, NoJob
<1>8. ASSUME NEW c \in Call, JobEndsUnread(c), UNCHANGED caller PROVE Tokens'
  BY <1>8 DEF JobEndsUnread, NoJob
<1>9. ASSUME NEW c \in Call, Release(c) \/ ReleaseFails(c), UNCHANGED caller PROVE Tokens'
  BY <1>9 DEF Release, ReleaseFails, Goto, After, Leave
<1>10. ASSUME NEW c \in Call, WriteArtifact(c) \/ WriterFails(c) \/ Finish(c), UNCHANGED caller
       PROVE  Tokens'
  BY <1>10 DEF WriteArtifact, WriterFails, Finish, Goto, Answers
<1>11. ASSUME NEW c \in Call, Cancel(c), UNCHANGED caller PROVE Tokens'
  <2>1. token' = token \/ token' = [token EXCEPT ![c] = 0]
    BY <1>11 DEF Cancel, Return
  <2>2. UNCHANGED <<box, uids, job, crossed>>
    BY <1>11 DEF Cancel
  <2> QED BY <2>1, <2>2
<1>12. ASSUME NEW c \in Call, Orphan(c), UNCHANGED caller PROVE Tokens'
  BY <1>12 DEF Orphan, Goto
<1>13. ASSUME NEW a \in Caller, Evict(a), UNCHANGED caller PROVE Tokens'
  BY <1>13 DEF Evict, Leave
<1>14. ASSUME NEW c \in Call, NEW n \in Name, Adopt(c, n), UNCHANGED caller PROVE Tokens'
  BY <1>14 DEF Adopt, Gone
<1>15. ASSUME NEW c \in Call, Lose(c), UNCHANGED caller PROVE Tokens'
  BY <1>15 DEF Lose, Tear, Gone, NoJob
<1>16. ASSUME NEW c \in Call, Collect(c), UNCHANGED caller PROVE Tokens'
  <2>1. \A d \in Call : job'[d] = job[d] \/ job'[d] = NoJob
    BY <1>16 DEF Collect, Tear
  <2>2. \A n \in Name : box'[n] = box[n] \/ box'[n] = Gone
    BY <1>16 DEF Collect, Tear
  <2>3. UNCHANGED <<uids, token, crossed>>
    BY <1>16 DEF Collect
  <2> HIDE DEF TypeOK, Placed
  <2>4. \A d \in Call : job'[d].uid = job[d].uid \/ job'[d].uid = 0
    BY <2>1
  <2>5. \A n \in Name : box'[n] = box[n] \/ box'[n].uid = 0
    BY <2>2
  <2>6. uids \in Nat
    BY DEF TypeOK
  <2> HIDE DEF NoJob, Gone
  <2> QED BY <2>3, <2>4, <2>5, <2>6
<1>17. ASSUME NEW c \in Call, Expire(c), UNCHANGED caller PROVE Tokens'
  BY <1>17 DEF Expire
<1>18. ASSUME Tick, UNCHANGED caller PROVE Tokens'
  BY <1>18 DEF Tick, NoJob
<1>19. CASE UNCHANGED vars
  BY <1>19
<1>20. QED
  BY <1>1, <1>2, <1>3, <1>4, <1>5, <1>6, <1>7, <1>8, <1>9,
     <1>10, <1>11, <1>12, <1>13, <1>14, <1>15, <1>16, <1>17, <1>18, <1>19
     DEF Next, CallStep, Cluster

\* The job's clock and the claim's age go together.
LEMMA TimedInductive ==
    ASSUME TypeOK, Placed, Timed, [Next]_vars
    PROVE  Timed'
<1> USE DEF TypeOK, Placed, Timed, PromptJobsSpared, NoJob
<1>1. ASSUME NEW c \in Call, NEW a \in Caller, Begin(c, a) PROVE Timed'
  BY <1>1 DEF Begin, Goto
<1>2. ASSUME NEW c \in Call, ClaimRefused(c) \/ ClaimCreated(c), UNCHANGED caller
      PROVE  Timed'
  <2>1. CASE ClaimRefused(c)
    BY <1>2, <2>1 DEF ClaimRefused, Goto, Answers
  <2>2. CASE ClaimCreated(c)
    BY <1>2, <2>2 DEF ClaimCreated, Goto, Answers
  <2> QED BY <1>2, <2>1, <2>2
<1>3. ASSUME NEW c \in Call, ClaimFails(c) \/ Claimed(c), UNCHANGED caller PROVE Timed'
  <2>1. CASE ClaimFails(c)
    BY <1>3, <2>1 DEF ClaimFails, Goto, Answers, Leave
  <2>2. CASE Claimed(c)
    BY <1>3, <2>2 DEF Claimed, Goto, Answers, Leave
  <2> QED BY <1>3, <2>1, <2>2
<1>4. ASSUME NEW c \in Call, TokenClaimRead(c) \/ TokenMinted(c), UNCHANGED caller
      PROVE  Timed'
  <2>1. CASE TokenClaimRead(c)
    BY <1>4, <2>1 DEF TokenClaimRead, Goto
  <2>2. CASE TokenMinted(c)
    BY <1>4, <2>2 DEF TokenMinted, Goto
  <2> QED BY <1>4, <2>1, <2>2
<1>5. ASSUME NEW c \in Call,
             TokenRefused(c) \/ TokenFails(c) \/ PostFails(c) \/ ClientGivesUp(c), UNCHANGED caller
      PROVE  Timed'
  <2>1. pc' = [pc EXCEPT ![c] = "releasing"]
    BY <1>5 DEF TokenRefused, TokenFails, PostFails, ClientGivesUp, Return, Goto
  <2>2. UNCHANGED <<claim, age, job>>
    BY <1>5 DEF TokenRefused, TokenFails, PostFails, ClientGivesUp
  <2> QED BY <2>1, <2>2
<1>6. ASSUME NEW c \in Call, Post(c), UNCHANGED caller PROVE Timed'
  BY <1>6 DEF Post, Start, Goto
<1>7. ASSUME NEW c \in Call, JobEnds(c) \/ JobBreaks(c), UNCHANGED caller PROVE Timed'
  <2>1. pc' = [pc EXCEPT ![c] = "releasing"]
    BY <1>7 DEF JobEnds, JobBreaks, Return, Goto
  <2>2. job' = [job EXCEPT ![c] = NoJob] /\ UNCHANGED <<claim, age>>
    BY <1>7 DEF JobEnds, JobBreaks
  <2> QED BY <2>1, <2>2
<1>8. ASSUME NEW c \in Call, JobEndsUnread(c), UNCHANGED caller PROVE Timed'
  BY <1>8 DEF JobEndsUnread, NoJob
<1>9. ASSUME NEW c \in Call, Release(c) \/ ReleaseFails(c), UNCHANGED caller PROVE Timed'
  <2>1. \E p \in {"writing", "over"} : pc' = [pc EXCEPT ![c] = p]
    BY <1>9 DEF Release, ReleaseFails, Goto, After
  <2>2. claim' = [claim EXCEPT ![c] = IF @ \in Live THEN "deleting" ELSE @] \/ claim' = claim
    BY <1>9 DEF Release, ReleaseFails
  <2>3. UNCHANGED <<age, job>>
    BY <1>9 DEF Release, ReleaseFails
  <2> QED BY <2>1, <2>2, <2>3
<1>10. ASSUME NEW c \in Call, WriteArtifact(c) \/ WriterFails(c) \/ Finish(c), UNCHANGED caller
       PROVE  Timed'
  BY <1>10 DEF WriteArtifact, WriterFails, Finish, Goto, Answers
<1>11. ASSUME NEW c \in Call, Cancel(c), UNCHANGED caller PROVE Timed'
  BY <1>11 DEF Cancel, Return, Goto, Answers, Leave
<1>12. ASSUME NEW c \in Call, Orphan(c), UNCHANGED caller PROVE Timed'
  BY <1>12 DEF Orphan, Goto
<1>13. ASSUME NEW a \in Caller, Evict(a), UNCHANGED caller PROVE Timed'
  BY <1>13 DEF Evict, Leave
<1>14. ASSUME NEW c \in Call, NEW n \in Name, Adopt(c, n), UNCHANGED caller PROVE Timed'
  BY <1>14 DEF Adopt, Gone
<1>15. ASSUME NEW c \in Call, Lose(c), UNCHANGED caller PROVE Timed'
  BY <1>15 DEF Lose, Tear, Gone, NoJob
<1>16. ASSUME NEW c \in Call, Collect(c), UNCHANGED caller PROVE Timed'
  <2>1. \A d \in Call : job'[d] = job[d] \/ job'[d] = NoJob
    BY <1>16 DEF Collect, Tear
  <2>2. claim' = [claim EXCEPT ![c] = "gone"] /\ age' = [age EXCEPT ![c] = 0] /\ pc' = pc
    BY <1>16 DEF Collect
  <2> QED BY <2>1, <2>2
<1>17. ASSUME NEW c \in Call, Expire(c), UNCHANGED caller PROVE Timed'
  BY <1>17 DEF Expire
<1>18. ASSUME Tick, UNCHANGED caller PROVE Timed'
  BY <1>18 DEF Tick, NoJob
<1>19. CASE UNCHANGED vars
  BY <1>19
<1>20. QED
  BY <1>1, <1>2, <1>3, <1>4, <1>5, <1>6, <1>7, <1>8, <1>9,
     <1>10, <1>11, <1>12, <1>13, <1>14, <1>15, <1>16, <1>17, <1>18, <1>19
     DEF Next, CallStep, Cluster

\* Every way out of a call releases or leaves the claim to its deadline.
LEMMA ClosingInductive ==
    ASSUME TypeOK, Placed, Closing, [Next]_vars
    PROVE  Closing'
<1> USE DEF TypeOK, Placed, Closing, OkMeansAllWritten
<1>1. ASSUME NEW c \in Call, NEW a \in Caller, Begin(c, a) PROVE Closing'
  BY <1>1 DEF Begin, Goto
<1>2. ASSUME NEW c \in Call, ClaimRefused(c) \/ ClaimCreated(c), UNCHANGED caller
      PROVE  Closing'
  <2>1. CASE ClaimRefused(c)
    BY <1>2, <2>1 DEF ClaimRefused, Goto, Answers
  <2>2. CASE ClaimCreated(c)
    BY <1>2, <2>2 DEF ClaimCreated, Goto, Answers
  <2> QED BY <1>2, <2>1, <2>2
<1>3. ASSUME NEW c \in Call, ClaimFails(c) \/ Claimed(c), UNCHANGED caller PROVE Closing'
  <2>1. CASE ClaimFails(c)
    BY <1>3, <2>1 DEF ClaimFails, Goto, Answers, Leave
  <2>2. CASE Claimed(c)
    BY <1>3, <2>2 DEF Claimed, Goto, Answers, Leave
  <2> QED BY <1>3, <2>1, <2>2
<1>4. ASSUME NEW c \in Call, TokenClaimRead(c) \/ TokenMinted(c), UNCHANGED caller
      PROVE  Closing'
  <2>1. CASE TokenClaimRead(c)
    BY <1>4, <2>1 DEF TokenClaimRead, Goto
  <2>2. CASE TokenMinted(c)
    BY <1>4, <2>2 DEF TokenMinted, Goto
  <2> QED BY <1>4, <2>1, <2>2
<1>5. ASSUME NEW c \in Call,
             TokenRefused(c) \/ TokenFails(c) \/ PostFails(c) \/ ClientGivesUp(c), UNCHANGED caller
      PROVE  Closing'
  <2>1. pc' = [pc EXCEPT ![c] = "releasing"]
    BY <1>5 DEF TokenRefused, TokenFails, PostFails, ClientGivesUp, Return, Goto
  <2>2. answer' = [answer EXCEPT ![c] = "unavailable"]
    BY <1>5 DEF TokenRefused, TokenFails, PostFails, ClientGivesUp, Return, Answers
  <2>3. UNCHANGED <<claim, left, files, written>>
    BY <1>5 DEF TokenRefused, TokenFails, PostFails, ClientGivesUp
  <2> QED BY <2>1, <2>2, <2>3
<1>6. ASSUME NEW c \in Call, Post(c), UNCHANGED caller PROVE Closing'
  BY <1>6 DEF Post, Start, Goto
<1>7. ASSUME NEW c \in Call, JobEnds(c) \/ JobBreaks(c), UNCHANGED caller PROVE Closing'
  <2>1. pc[c] = "posted" /\ pc' = [pc EXCEPT ![c] = "releasing"]
    BY <1>7 DEF JobEnds, JobBreaks, Return, Goto
  <2>2. \E a \in Answer : answer' = [answer EXCEPT ![c] = a]
    BY <1>7 DEF JobEnds, JobBreaks, Return, Answers, Answer
  <2>3. \A d \in Call \ {c} : files'[d] = files[d]
    BY <1>7 DEF JobEnds, JobBreaks
  <2>4. UNCHANGED <<claim, left, written>>
    BY <1>7 DEF JobEnds, JobBreaks
  <2> QED BY <2>1, <2>2, <2>3, <2>4
<1>8. ASSUME NEW c \in Call, JobEndsUnread(c), UNCHANGED caller PROVE Closing'
  BY <1>8 DEF JobEndsUnread, NoJob
<1>9. ASSUME NEW c \in Call, Release(c) \/ ReleaseFails(c), UNCHANGED caller
      PROVE  Closing'
  BY <1>9 DEF Release, ReleaseFails, Goto, After, Leave
<1>10. ASSUME NEW c \in Call, WriteArtifact(c) \/ WriterFails(c) \/ Finish(c), UNCHANGED caller
       PROVE  Closing'
  <2>1. CASE WriteArtifact(c)
    BY <1>10, <2>1 DEF WriteArtifact
  <2>2. CASE WriterFails(c)
    BY <1>10, <2>2 DEF WriterFails, Goto, Answers
  <2>3. CASE Finish(c)
    BY <1>10, <2>3 DEF Finish, Goto
  <2> QED BY <1>10, <2>1, <2>2, <2>3
<1>11. ASSUME NEW c \in Call, Cancel(c), UNCHANGED caller PROVE Closing'
  BY <1>11 DEF Cancel, Return, Goto, Answers, Leave
<1>12. ASSUME NEW c \in Call, Orphan(c), UNCHANGED caller PROVE Closing'
  BY <1>12 DEF Orphan, Goto
<1>13. ASSUME NEW a \in Caller, Evict(a), UNCHANGED caller PROVE Closing'
  BY <1>13 DEF Evict, Leave
<1>14. ASSUME NEW c \in Call, NEW n \in Name, Adopt(c, n), UNCHANGED caller PROVE Closing'
  BY <1>14 DEF Adopt, Gone
<1>15. ASSUME NEW c \in Call, Lose(c), UNCHANGED caller PROVE Closing'
  BY <1>15 DEF Lose, Tear, Gone, NoJob
<1>16. ASSUME NEW c \in Call, Collect(c), UNCHANGED caller PROVE Closing'
  BY <1>16 DEF Collect, Tear, Gone, NoJob
<1>17. ASSUME NEW c \in Call, Expire(c), UNCHANGED caller PROVE Closing'
  BY <1>17 DEF Expire
<1>18. ASSUME Tick, UNCHANGED caller PROVE Closing'
  BY <1>18 DEF Tick, NoJob
<1>19. CASE UNCHANGED vars
  BY <1>19
<1>20. QED
  BY <1>1, <1>2, <1>3, <1>4, <1>5, <1>6, <1>7, <1>8, <1>9,
     <1>10, <1>11, <1>12, <1>13, <1>14, <1>15, <1>16, <1>17, <1>18, <1>19
     DEF Next, CallStep, Cluster

\* Each way out of the sandbox and of the tool gives an answer.
LEMMA AnsweringInductive ==
    ASSUME TypeOK, Answering, [Next]_vars
    PROVE  Answering'
<1> USE DEF TypeOK, Answering
<1>1. ASSUME NEW c \in Call, NEW a \in Caller, Begin(c, a) PROVE Answering'
  BY <1>1 DEF Begin, Goto
<1>2. ASSUME NEW c \in Call, ClaimRefused(c) \/ ClaimCreated(c), UNCHANGED caller
      PROVE  Answering'
  BY <1>2 DEF ClaimRefused, ClaimCreated, Goto, Answers
<1>3. ASSUME NEW c \in Call, ClaimFails(c) \/ Claimed(c), UNCHANGED caller PROVE Answering'
  BY <1>3 DEF ClaimFails, Claimed, Goto, Answers, Leave
<1>4. ASSUME NEW c \in Call, TokenClaimRead(c) \/ TokenMinted(c), UNCHANGED caller
      PROVE  Answering'
  BY <1>4 DEF TokenClaimRead, TokenMinted, Goto
<1>5. ASSUME NEW c \in Call,
             TokenRefused(c) \/ TokenFails(c) \/ PostFails(c) \/ ClientGivesUp(c), UNCHANGED caller
      PROVE  Answering'
  BY <1>5 DEF TokenRefused, TokenFails, PostFails, ClientGivesUp, Return, Goto, Answers
<1>6. ASSUME NEW c \in Call, Post(c), UNCHANGED caller PROVE Answering'
  BY <1>6 DEF Post, Start, Goto
<1>7. ASSUME NEW c \in Call, JobEnds(c) \/ JobBreaks(c), UNCHANGED caller PROVE Answering'
  BY <1>7 DEF JobEnds, JobBreaks, Return, Goto, Answers
<1>8. ASSUME NEW c \in Call, JobEndsUnread(c), UNCHANGED caller PROVE Answering'
  BY <1>8 DEF JobEndsUnread, NoJob
<1>9. ASSUME NEW c \in Call, Release(c) \/ ReleaseFails(c), UNCHANGED caller
      PROVE  Answering'
  BY <1>9 DEF Release, ReleaseFails, Goto, After, Leave
<1>10. ASSUME NEW c \in Call, WriteArtifact(c) \/ WriterFails(c) \/ Finish(c), UNCHANGED caller
       PROVE  Answering'
  BY <1>10 DEF WriteArtifact, WriterFails, Finish, Goto, Answers
<1>11. ASSUME NEW c \in Call, Cancel(c), UNCHANGED caller PROVE Answering'
  BY <1>11 DEF Cancel, Return, Goto, Answers, Leave
<1>12. ASSUME NEW c \in Call, Orphan(c), UNCHANGED caller PROVE Answering'
  BY <1>12 DEF Orphan, Goto
<1>13. ASSUME NEW a \in Caller, Evict(a), UNCHANGED caller PROVE Answering'
  BY <1>13 DEF Evict, Leave
<1>14. ASSUME NEW c \in Call, NEW n \in Name, Adopt(c, n), UNCHANGED caller PROVE Answering'
  BY <1>14 DEF Adopt, Gone
<1>15. ASSUME NEW c \in Call, Lose(c), UNCHANGED caller PROVE Answering'
  BY <1>15 DEF Lose, Tear, Gone, NoJob
<1>16. ASSUME NEW c \in Call, Collect(c), UNCHANGED caller PROVE Answering'
  BY <1>16 DEF Collect, Tear, Gone, NoJob
<1>17. ASSUME NEW c \in Call, Expire(c), UNCHANGED caller PROVE Answering'
  BY <1>17 DEF Expire
<1>18. ASSUME Tick, UNCHANGED caller PROVE Answering'
  BY <1>18 DEF Tick, NoJob
<1>19. CASE UNCHANGED vars
  BY <1>19
<1>20. QED
  BY <1>1, <1>2, <1>3, <1>4, <1>5, <1>6, <1>7, <1>8, <1>9,
     <1>10, <1>11, <1>12, <1>13, <1>14, <1>15, <1>16, <1>17, <1>18, <1>19
     DEF Next, CallStep, Cluster

\* The inductive invariant of ExecSandboxes.
IInv == Placed /\ Permitted /\ Tokens /\ Timed /\ Closing /\ Answering

\* Every reachable state satisfies the inductive invariant.
THEOREM ExecInvariance == Spec => [](TypeOK /\ IInv)
<1>1. Init => TypeOK /\ IInv
  BY DEF Init, TypeOK, Steps, Answer, IInv, Placed, Permitted, Tokens, Timed, Closing, Answering,
         PromptJobsSpared, OkMeansAllWritten, Gone, NoJob
<1>2. TypeOK /\ IInv /\ [Next]_vars => (TypeOK /\ IInv)'
  BY TypesInductive, PlacedInductive, PermittedInductive, TokensInductive,
     TimedInductive, ClosingInductive, AnsweringInductive DEF IInv
<1>3. QED
  BY <1>1, <1>2, PTL DEF Spec

\* The types hold in every reachable state.
THEOREM ExecTyping == Spec => []TypeOK
BY ExecInvariance, PTL

\* A job runs in the sandbox its own claim was given, unless the name changed
\* hands between exec_token's two reads.
THEOREM OwnSandbox == Spec => []JobInOwnSandbox
<1>1. TypeOK /\ IInv => JobInOwnSandbox
  BY DEF TypeOK, IInv, Placed, Tokens, JobInOwnSandbox
<1>2. QED
  BY <1>1, ExecInvariance, PTL

\* run_python_analysis never ends and keeps a claim that nothing else ends.
THEOREM NoClaimKept == Spec => []EndedReleased
<1>1. IInv => EndedReleased
  BY DEF IInv, Closing, EndedReleased
<1>2. QED
  BY <1>1, ExecInvariance, PTL

\* No code runs for a persona without both the offer and the Role, and the offer
\* is made by a profile that may execute code.
THEOREM GrantedOnly == Spec => []OnlyGrantedRun
<1>1. ASSUME NEW c \in Call, PYTHON \in Offered(caller[c])
      PROVE  resolve(DefaultTools[caller[c]]).can_execute_code
  BY <1>1, OfferedCode DEF Offered, build_tools, GrantedTools
<1>2. TypeOK /\ IInv => OnlyGrantedRun
  BY <1>1 DEF TypeOK, IInv, Placed, Permitted, OnlyGrantedRun
<1>3. QED
  BY <1>2, ExecInvariance, PTL

\* The tool's answer names all the files of its job, or is not a success.
THEOREM NothingDropped == Spec => []OkMeansAllWritten
<1>1. IInv => OkMeansAllWritten
  BY DEF IInv, Closing
<1>2. QED
  BY <1>1, ExecInvariance, PTL

\* For any timeout and any job limit: the deadline ends no job that was posted
\* the job limit before it.
THEOREM DeadlineSparesJobs == Spec => []PromptJobsSpared
<1>1. IInv => PromptJobsSpared
  BY DEF IInv, Timed
<1>2. QED
  BY <1>1, ExecInvariance, PTL

\* What an abstract step changes, and what it is made of.
CallVars ==
    <<[c \in Call |-> StageOf(pc[c])], caller, {c \in Call : pc[c] \in Spent},
      {c \in Call : job[c] # NoJob}, answer, files, written>>

\* Nobody has called.
LEMMA CallsStart == Init => Calls!CallsInit
BY DEF Init, Calls!CallsInit, StageOf, Spent, NoJob

\* A call that asks.
LEMMA AskStep ==
    ASSUME TypeOK, IInv, NEW c \in Call, NEW a \in Caller, Begin(c, a)
    PROVE  Calls!Ask(c, a)
BY DEF TypeOK, Begin, Goto, Calls!Ask, StageOf, Spent

\* Only a call that has a token posts, and only one that was offered the tool and
\* holds a claim has a token.
LEMMA RunStep ==
    ASSUME TypeOK, IInv, NEW c \in Call, Post(c), UNCHANGED caller
    PROVE  Calls!Run(c)
<1>1. caller[c] \in MayRun
  <2>1. pc[c] = "posting"
    BY DEF Post, Start, Goto
  <2>2. PYTHON \in Offered(caller[c]) /\ caller[c] \in RoleBinding
    BY <2>1 DEF IInv, Placed, Permitted
  <2> QED BY <2>2, OfferedCode DEF Offered, build_tools, GrantedTools, MayRun
<1>2. pc[c] = "posting" /\ pc' = [pc EXCEPT ![c] = "posted"]
  BY DEF Post, Start, Goto
<1>3. job'[c] # NoJob /\ \A d \in Call \ {c} : job'[d] = job[d]
  BY <1>2 DEF Post, Start, TypeOK, IInv, Placed, NoJob
<1>4. UNCHANGED <<caller, answer, files, written>>
  BY DEF Post, Start
<1>5. {d \in Call : job'[d] # NoJob} = {d \in Call : job[d] # NoJob} \union {c}
  BY <1>3
<1>6. {d \in Call : pc'[d] \in Spent} = {d \in Call : pc[d] \in Spent} \union {c}
  BY <1>2 DEF TypeOK, Spent
<1>7. [d \in Call |-> StageOf(pc'[d])] = [d \in Call |-> StageOf(pc[d])]
  BY <1>2 DEF TypeOK, StageOf
<1> QED BY <1>1, <1>2, <1>4, <1>5, <1>6, <1>7 DEF Calls!Run, StageOf, Spent

\* The job of the call, and no other, gives it its result.
LEMMA ResultStep ==
    ASSUME TypeOK, IInv, NEW c \in Call, JobEnds(c), UNCHANGED caller
    PROVE  \E ok \in BOOLEAN, f \in 0..MaxFiles : Calls!Result(c, ok, f)
<1>1. pc[c] = "posted" /\ pc' = [pc EXCEPT ![c] = "releasing"]
  BY DEF JobEnds, Return, Goto
<1>2. PICK ok \in BOOLEAN, f \in 0..MaxFiles :
         /\ ok \/ f = 0
         /\ answer' = [answer EXCEPT ![c] = IF ok THEN "ok" ELSE "failed"]
         /\ files' = [files EXCEPT ![c] = f]
  BY DEF JobEnds, Return, Answers
<1>3. {d \in Call : job'[d] # NoJob} = {d \in Call : job[d] # NoJob} \ {c}
  BY DEF JobEnds, TypeOK, NoJob
<1>4. {d \in Call : pc'[d] \in Spent} = {d \in Call : pc[d] \in Spent}
  BY <1>1 DEF TypeOK, Spent
<1>5. [d \in Call |-> StageOf(pc'[d])] = [d \in Call |-> StageOf(pc[d])]
  BY <1>1 DEF TypeOK, StageOf
<1>6. job[c] # NoJob /\ answer[c] = "none" /\ UNCHANGED <<caller, written>>
  BY <1>1 DEF JobEnds, IInv, Answering
<1>7. Calls!Result(c, ok, f)
  BY <1>1, <1>2, <1>3, <1>4, <1>5, <1>6 DEF Calls!Result, StageOf
<1> QED BY <1>7

\* A call that gets no result, or cannot store it all.
LEMMA FailSteps ==
    ASSUME TypeOK, IInv, NEW c \in Call, UNCHANGED caller,
           \/ ClaimRefused(c) \/ ClaimFails(c) \/ TokenRefused(c) \/ TokenFails(c)
           \/ PostFails(c) \/ JobBreaks(c) \/ ClientGivesUp(c) \/ WriterFails(c)
    PROVE  \E why \in {"denied", "unavailable", "raised"} : Calls!Fail(c, why)
<1>1. PICK why \in {"denied", "unavailable", "raised"} :
         /\ answer' = [answer EXCEPT ![c] = why]
         /\ \/ /\ pc[c] \in {"claiming", "waiting", "routing", "naming", "posting", "posted"}
               /\ why \in {"denied", "unavailable"}
            \/ pc[c] = "writing" /\ why = "raised" /\ written[c] < files[c]
  BY DEF ClaimRefused, ClaimFails, TokenRefused, TokenFails, PostFails, JobBreaks,
         ClientGivesUp, WriterFails, Return, Goto, Answers
<1>2. pc' = [pc EXCEPT ![c] = "releasing"] \/ pc' = [pc EXCEPT ![c] = "over"]
  BY DEF ClaimRefused, ClaimFails, TokenRefused, TokenFails, PostFails, JobBreaks,
         ClientGivesUp, WriterFails, Return, Goto
<1>3. job' = job \/ job' = [job EXCEPT ![c] = NoJob]
  BY DEF ClaimRefused, ClaimFails, TokenRefused, TokenFails, PostFails, JobBreaks,
         ClientGivesUp, WriterFails
<1>4. UNCHANGED <<caller, files, written>>
  BY DEF ClaimRefused, ClaimFails, TokenRefused, TokenFails, PostFails, JobBreaks,
         ClientGivesUp, WriterFails
<1>5. \/ {d \in Call : job'[d] # NoJob} = {d \in Call : job[d] # NoJob}
      \/ {d \in Call : job'[d] # NoJob} = {d \in Call : job[d] # NoJob} \ {c}
  BY <1>3 DEF TypeOK
<1>6. {d \in Call : pc'[d] \in Spent} = {d \in Call : pc[d] \in Spent} \union {c}
  BY <1>2 DEF TypeOK, Spent
<1>7. \/ [d \in Call |-> StageOf(pc'[d])] = [d \in Call |-> StageOf(pc[d])]
      \/ [d \in Call |-> StageOf(pc'[d])]
            = [[d \in Call |-> StageOf(pc[d])] EXCEPT ![c] = "closed"]
  <2>1. CASE pc' = [pc EXCEPT ![c] = "releasing"]
    BY <1>1, <2>1 DEF TypeOK, StageOf
  <2>2. CASE pc' = [pc EXCEPT ![c] = "over"]
    BY <2>2 DEF TypeOK, StageOf
  <2> QED BY <1>2, <2>1, <2>2
<1>8. IF pc[c] = "writing" THEN answer[c] = "ok" ELSE answer[c] = "none"
  BY <1>1 DEF IInv, Answering
<1>9. Calls!Fail(c, why)
  BY <1>1, <1>4, <1>5, <1>6, <1>7, <1>8 DEF Calls!Fail, StageOf
<1> QED BY <1>9

\* A turn that is cut, and the calls of a persona that is evicted.
LEMMA CutSteps ==
    ASSUME TypeOK, IInv, UNCHANGED caller,
           (\E c \in Call : Cancel(c)) \/ (\E a \in Caller : Evict(a))
    PROVE  \E C \in SUBSET Call : Calls!Cut(C)
<1>1. CASE \E c \in Call : Cancel(c)
  <2>1. PICK c \in Call : Cancel(c)
    BY <1>1
  <2>2. pc[c] \notin {"idle", "over"} /\ answer' = [answer EXCEPT ![c] = "cut"]
    BY <2>1 DEF Cancel, Return, Goto, Answers
  <2>3. \E p \in {"releasing", "orphaning", "over"} : pc' = [pc EXCEPT ![c] = p]
    BY <2>1 DEF Cancel, Return, Goto
  <2>4. UNCHANGED <<caller, job, files, written>>
    BY <2>1 DEF Cancel
  <2>5. {d \in Call : pc'[d] \in Spent} = {d \in Call : pc[d] \in Spent} \union {c}
    BY <2>3 DEF TypeOK, Spent
  <2>6. \/ [d \in Call |-> StageOf(pc'[d])] = [d \in Call |-> StageOf(pc[d])]
        \/ [d \in Call |-> StageOf(pc'[d])]
              = [d \in Call |-> IF d \in {c} THEN "closed" ELSE StageOf(pc[d])]
    BY <2>2, <2>3 DEF TypeOK, StageOf
  <2>7. answer' = [d \in Call |-> IF d \in {c} THEN "cut" ELSE answer[d]]
    BY <2>2 DEF TypeOK
  <2>8. Calls!Cut({c})
    BY <2>2, <2>4, <2>5, <2>6, <2>7 DEF Calls!Cut, StageOf
  <2> QED BY <2>8
<1>2. CASE \E a \in Caller : Evict(a)
  <2>1. PICK a \in Caller : Evict(a)
    BY <1>2
  <2>0. PICK mid \in SUBSET Call :
              mid = {c \in Call : caller[c] = a /\ pc[c] \notin {"idle", "over"}}
    OBVIOUS
  <2>2. /\ pc' = [c \in Call |-> IF c \in mid THEN "over" ELSE pc[c]]
        /\ answer' = [c \in Call |-> IF c \in mid THEN "cut" ELSE answer[c]]
    BY <2>0, <2>1 DEF Evict
  <2>3. UNCHANGED <<caller, job, files, written>>
    BY <2>1 DEF Evict
  <2>4. \A c \in mid : StageOf(pc[c]) = "open"
    BY <2>0 DEF StageOf
  <2>5. {d \in Call : pc'[d] \in Spent} = {d \in Call : pc[d] \in Spent} \union mid
    BY <2>2 DEF Spent
  <2>6. [d \in Call |-> StageOf(pc'[d])]
          = [d \in Call |-> IF d \in mid THEN "closed" ELSE StageOf(pc[d])]
    BY <2>2 DEF StageOf
  <2>7. Calls!Cut(mid)
    BY <2>2, <2>3, <2>4, <2>5, <2>6 DEF Calls!Cut
  <2> QED BY <2>7
<1> QED BY <1>1, <1>2

\* A call that has released ends, unless its files are to be stored.
LEMMA CloseSteps ==
    ASSUME TypeOK, IInv, NEW c \in Call, UNCHANGED caller,
           Release(c) \/ ReleaseFails(c) \/ Finish(c) \/ Orphan(c)
    PROVE  Calls!Close(c) \/ UNCHANGED CallVars
<1>1. UNCHANGED <<caller, answer, job, files, written>>
  BY DEF Release, ReleaseFails, Finish, Orphan
<1>2. CASE pc[c] = "releasing" /\ pc' = [pc EXCEPT ![c] = "writing"]
  <2>1. {d \in Call : pc'[d] \in Spent} = {d \in Call : pc[d] \in Spent}
    BY <1>2 DEF TypeOK, Spent
  <2>2. [d \in Call |-> StageOf(pc'[d])] = [d \in Call |-> StageOf(pc[d])]
    BY <1>2 DEF TypeOK, StageOf
  <2> QED BY <1>1, <2>1, <2>2 DEF CallVars
<1>3. CASE /\ pc[c] \in {"releasing", "writing", "orphaning"}
           /\ pc' = [pc EXCEPT ![c] = "over"]
           /\ answer[c] = "ok" => written[c] = files[c]
  <2>1. {d \in Call : pc'[d] \in Spent} = {d \in Call : pc[d] \in Spent}
    BY <1>3 DEF TypeOK, Spent
  <2>2. [d \in Call |-> StageOf(pc'[d])]
          = [[d \in Call |-> StageOf(pc[d])] EXCEPT ![c] = "closed"]
    BY <1>3 DEF TypeOK, StageOf
  <2>3. answer[c] # "none"
    BY <1>3 DEF IInv, Answering
  <2> QED BY <1>1, <1>3, <2>1, <2>2, <2>3 DEF Calls!Close, StageOf, Spent
<1>4. CASE Release(c) \/ ReleaseFails(c)
  BY <1>2, <1>3, <1>4 DEF Release, ReleaseFails, Goto, After
<1>5. CASE Finish(c)
  BY <1>3, <1>5 DEF Finish, Goto
<1>6. CASE Orphan(c)
  BY <1>3, <1>6 DEF Orphan, Goto, IInv, Closing
<1> QED BY <1>4, <1>5, <1>6

\* What the cluster, the clock and a job do by themselves shows in no call, but
\* for the jobs it ends.
LEMMA QuietSteps ==
    ASSUME TypeOK, IInv, NEW c \in Call, UNCHANGED caller,
           \/ ClaimCreated(c) \/ Claimed(c) \/ TokenClaimRead(c) \/ TokenMinted(c)
           \/ JobEndsUnread(c) \/ Cluster(c) \/ Tick
    PROVE  Calls!Vanish \/ UNCHANGED CallVars
<1>1. UNCHANGED <<caller, answer, files, written>>
  BY DEF ClaimCreated, Claimed, TokenClaimRead, TokenMinted, JobEndsUnread, Cluster,
         Adopt, Lose, Collect, Expire, Tick
<1>2. \A d \in Call : StageOf(pc'[d]) = StageOf(pc[d]) /\ (pc'[d] \in Spent <=> pc[d] \in Spent)
  BY DEF TypeOK, ClaimCreated, Claimed, TokenClaimRead, TokenMinted, JobEndsUnread, Cluster,
         Adopt, Lose, Collect, Expire, Tick, Goto, StageOf, Spent
<1>3. \A d \in Call : job'[d] # NoJob => job[d] # NoJob
  <2>1. CASE JobEndsUnread(c) \/ Lose(c) \/ Collect(c)
    BY <2>1 DEF JobEndsUnread, Lose, Collect, Tear, TypeOK
  <2>2. CASE Tick
    BY <2>2 DEF Tick
  <2>3. CASE ~ (JobEndsUnread(c) \/ Lose(c) \/ Collect(c) \/ Tick)
    BY <2>3 DEF ClaimCreated, Claimed, TokenClaimRead, TokenMinted, Cluster, Adopt, Expire
  <2> QED BY <2>1, <2>2, <2>3
<1>4. /\ [d \in Call |-> StageOf(pc'[d])] = [d \in Call |-> StageOf(pc[d])]
      /\ {d \in Call : pc'[d] \in Spent} = {d \in Call : pc[d] \in Spent}
      /\ {d \in Call : job'[d] # NoJob} \subseteq {d \in Call : job[d] # NoJob}
  BY <1>2, <1>3
<1> QED BY <1>1, <1>4 DEF Calls!Vanish

\* One file more.
LEMMA StoreStep ==
    ASSUME TypeOK, IInv, NEW c \in Call, WriteArtifact(c), UNCHANGED caller
    PROVE  Calls!Store(c)
<1>1. answer[c] = "ok" /\ StageOf(pc[c]) = "open"
  BY DEF WriteArtifact, IInv, Answering, StageOf
<1> QED BY <1>1 DEF WriteArtifact, TypeOK, Calls!Store

\* For any calls, callers and times: whatever becomes of the claims, sandboxes
\* and connections (internal.py:266-328, server.py), a call of run_python_analysis
\* starts at most one job, for the granted only, answers with its own job's result
\* or an error, and without an error only when every file is stored.
THEOREM ImplementsCalls == Spec => RefinesCalls
<1>1. TypeOK /\ IInv /\ [Next]_vars => [Calls!CallsNext]_Calls!callVars
  <2> SUFFICES ASSUME TypeOK, IInv, [Next]_vars
               PROVE  Calls!CallsNext \/ UNCHANGED CallVars
    BY DEF Calls!callVars, CallVars
  <2>1. ASSUME NEW c \in Call, NEW a \in Caller, Begin(c, a) PROVE Calls!CallsNext
    BY <2>1, AskStep DEF Calls!CallsNext
  <2>2. ASSUME NEW c \in Call, Post(c) \/ JobEnds(c), UNCHANGED caller PROVE Calls!CallsNext
    BY <2>2, RunStep, ResultStep DEF Calls!CallsNext
  <2>3. ASSUME NEW c \in Call, UNCHANGED caller,
               \/ ClaimRefused(c) \/ ClaimFails(c) \/ TokenRefused(c) \/ TokenFails(c)
               \/ PostFails(c) \/ JobBreaks(c) \/ ClientGivesUp(c) \/ WriterFails(c)
        PROVE  Calls!CallsNext
    BY <2>3, FailSteps DEF Calls!CallsNext
  <2>4. ASSUME (\E c \in Call : Cancel(c)) \/ (\E a \in Caller : Evict(a)), UNCHANGED caller
        PROVE  Calls!CallsNext
    BY <2>4, CutSteps DEF Calls!CallsNext
  <2>5. ASSUME NEW c \in Call, UNCHANGED caller,
               Release(c) \/ ReleaseFails(c) \/ Finish(c) \/ Orphan(c)
        PROVE  Calls!CallsNext \/ UNCHANGED CallVars
    BY <2>5, CloseSteps DEF Calls!CallsNext
  <2>6. ASSUME NEW c \in Call, UNCHANGED caller,
               \/ ClaimCreated(c) \/ Claimed(c) \/ TokenClaimRead(c) \/ TokenMinted(c)
               \/ JobEndsUnread(c) \/ Cluster(c) \/ Tick
        PROVE  Calls!CallsNext \/ UNCHANGED CallVars
    BY <2>6, QuietSteps DEF Calls!CallsNext
  <2>7. ASSUME NEW c \in Call, WriteArtifact(c), UNCHANGED caller PROVE Calls!CallsNext
    BY <2>7, StoreStep DEF Calls!CallsNext
  <2>8. ASSUME Tick, UNCHANGED caller PROVE Calls!CallsNext \/ UNCHANGED CallVars
    <3>1. \E c \in Call : TRUE
      BY <2>8 DEF Tick, TypeOK
    <3> QED BY <2>6, <2>8, <3>1
  <2>9. CASE UNCHANGED vars
    BY <2>9 DEF CallVars
  <2> QED BY <2>1, <2>2, <2>3, <2>4, <2>5, <2>6, <2>7, <2>8, <2>9 DEF Next, CallStep
<1> QED BY <1>1, CallsStart, ExecInvariance, PTL DEF Spec, RefinesCalls, Calls!CallsSpec
=============================================================================
