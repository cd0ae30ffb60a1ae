------------------------- MODULE DeliberationProofs -------------------------
(***************************************************************************)
(* Proofs about Deliberation, for any attendees, turn limit, number of     *)
(* runs and size of the runtime's cache: its invariants, that it           *)
(* implements Minutes, and how long a run can be.                          *)
(***************************************************************************)
EXTENDS Deliberation, FiniteSetTheorems, TLAPS

\* While a turn is taken it is within the limit and somebody's, and what comes
\* back from the runtime is that turn's.
Placed ==
    /\ pc \in InTurn => turn <= TurnLimit /\ next \in Attendee
    /\ pc \in {"thinking", "answered", "recorded"} => answer # None /\ Key(answer) = key

\* The store has one row per turn key.  A turn reaches the runtime only if it has
\* no row or its lookup failed, and once recorded its row is what is returned.
Recorded ==
    /\ \A u, v \in store : Key(u) = Key(v) => u = v
    /\ pc \in {"issue", "thinking", "answered"} =>
         \A u \in store : Key(u) = key => key \in missed
    /\ pc = "recorded" =>
         \A u \in store : Key(u) = key => u = answer \/ key \in missed

\* What the thread of a meeting's first run holds was streamed by that run.
FirstThread ==
    /\ run = 0 => thread = {} /\ pc = "idle"
    /\ run <= 1 => \A u \in thread : \E i \in DOMAIN transcript : transcript[i] = u

\* Nothing but what the model came up with is remembered anywhere.
Genuine ==
    /\ \A u \in asked : u.take # 0
    /\ store \subseteq asked
    /\ \A a \in Attendee : cache[a] \subseteq asked
    /\ pc \in {"thinking", "answered", "recorded"} => answer \in asked

Typed == TypeOK /\ IsFiniteSet(asked)

IInv ==
    /\ Typed /\ Placed /\ Genuine
    /\ TurnsInOrder /\ WithinLimit
    /\ Recorded /\ RecordIsWhatWasHeard
    /\ FirstThread /\ EveryoneHeardFirst

USE LimitIsPositive, EntriesIsPositive, RunsBounded, NoneIsNobody
USE DEF chair, talk, memory, vars, Utterance, Key, key, Of, InTurn, Active, Reasons

LEMMA InitIsPlaced == Init => IInv
<1> SUFFICES ASSUME Init PROVE IInv
  OBVIOUS
<1>1. IsFiniteSet(asked)
  BY FS_EmptySet DEF Init
<1>2. QED
  BY <1>1 DEF Init, IInv, Typed, TypeOK, Placed, Genuine, TurnsInOrder, WithinLimit, Recorded,
              RecordIsWhatWasHeard, FirstThread, EveryoneHeardFirst

\* What a turn's utterance is, in every step that says one.
LEMMA SaidIsTyped ==
    ASSUME Typed, Placed
    PROVE  /\ pc \in InTurn => Failed \in Utterance
           /\ pc \in InTurn => \A u \in Of(key, store) : u \in Utterance
           /\ pc = "recorded" => answer \in Utterance
BY DEF Typed, TypeOK, Placed, Failed

LEMMA SayIsTyped ==
    ASSUME Typed, NEW u \in Utterance, Say(u)
    PROVE  /\ pc' = "chair" /\ answer' = None
           /\ thread' \subseteq Utterance
           /\ transcript' \in Seq(Utterance)
BY DEF Typed, TypeOK, Say

LEMMA TypeInductive ==
    ASSUME Typed, Placed, [Next]_vars
    PROVE  Typed'
<1> USE DEF Typed, TypeOK
<1>1. CASE StartRun
  BY <1>1 DEF StartRun
<1>2. CASE ChairAtLimit \/ ChairFinishes \/ ChairStumbles \/ \E a \in Attendee : ChairNames(a)
  <2>1. CASE ChairAtLimit
    BY <2>1 DEF ChairAtLimit, EndRun
  <2>2. CASE ChairFinishes
    BY <2>2 DEF ChairFinishes, EndRun
  <2>3. CASE ChairStumbles
    BY <2>3 DEF ChairStumbles
  <2>4. CASE \E a \in Attendee : ChairNames(a)
    BY <2>4 DEF ChairNames, GiveTurn
  <2>5. QED
    BY <1>2, <2>1, <2>2, <2>3, <2>4
<1>3. CASE ChairGivesUp
  BY <1>3 DEF ChairGivesUp, EndRun, GiveTurn, Unheard
<1>4. CASE LookUp
  <2>1. ASSUME NEW u \in Of(key, store), Say(u), UNCHANGED <<tries, missed>> PROVE Typed'
    BY <1>4, <2>1, SaidIsTyped, SayIsTyped DEF LookUp
  <2>2. CASE pc' = "issue" /\ tries' = 0 /\ missed' \in {missed, missed \union {key}}
             /\ UNCHANGED <<answer, talk>>
    BY <1>4, <2>2 DEF LookUp, Placed
  <2>3. QED
    BY <1>4, <2>1, <2>2 DEF LookUp
<1>5. CASE IssueTurn
  <2>1. CASE Of(key, cache[next]) = {}
    <3> DEFINE u == [by |-> next, turn |-> turn, take |-> Cardinality(Of(key, asked)) + 1]
    <3>1. IsFiniteSet(Of(key, asked))
      BY FS_Subset
    <3>2. u \in Utterance
      BY <1>5, <3>1, FS_CardinalityType DEF IssueTurn, Placed
    <3>3. asked' = asked \union {u} /\ answer' = u /\ pc' = "thinking"
      BY <1>5, <2>1 DEF IssueTurn
    <3>4. IsFiniteSet(asked')
      BY <3>3, FS_AddElement
    <3>5. QED
      BY <1>5, <3>2, <3>3, <3>4 DEF IssueTurn
  <2>2. CASE Of(key, cache[next]) # {}
    BY <1>5, <2>2 DEF IssueTurn, Placed
  <2>3. QED
    BY <2>1, <2>2
<1>6. CASE Answer
  <2>1. cache' \in [Attendee -> SUBSET Utterance]
    <3>1. answer \in Utterance /\ answer.by \in Attendee
      BY <1>6 DEF Answer, Placed
    <3>2. cache[answer.by] \union {answer} \in SUBSET Utterance
      BY <3>1
    <3>3. QED
      BY <1>6, <3>2 DEF Answer, Remember
  <2>2. QED
    BY <1>6, <2>1 DEF Answer, Placed
<1>7. CASE TurnFails
  <2>1. Failed \in Utterance /\ Say(Failed)
    BY <1>7, SaidIsTyped DEF TurnFails
  <2>2. QED
    BY <1>7, <2>1, SayIsTyped DEF TurnFails
<1>8. CASE TransportFails
  <2>1. cache' \in [Attendee -> SUBSET Utterance]
    BY <1>8 DEF TransportFails
  <2>2. CASE Say(Failed) /\ UNCHANGED tries
    BY <1>8, <2>1, <2>2, SaidIsTyped, SayIsTyped DEF TransportFails
  <2>3. CASE tries' = 1 /\ pc' = "issue" /\ answer' = None /\ UNCHANGED talk
    BY <1>8, <2>1, <2>3 DEF TransportFails
  <2>4. QED
    BY <1>8, <2>2, <2>3 DEF TransportFails
<1>9. CASE Record
  BY <1>9 DEF Record, Placed
<1>10. CASE Return
  BY <1>10, SaidIsTyped DEF Return, Say
<1>11. CASE GraphFails \/ Cut \/ \E a \in Attendee : PodLost(a)
  <2>1. CASE GraphFails
    BY <2>1 DEF GraphFails, EndRun
  <2>2. CASE Cut
    BY <2>2 DEF Cut
  <2>3. CASE \E a \in Attendee : PodLost(a)
    BY <2>3 DEF PodLost
  <2>4. QED
    BY <1>11, <2>1, <2>2, <2>3
<1>12. CASE UNCHANGED vars
  BY <1>12
<1>13. QED
  BY <1>1, <1>2, <1>3, <1>4, <1>5, <1>6, <1>7, <1>8, <1>9, <1>10, <1>11, <1>12
     DEF Next, ChairStep, TurnStep

LEMMA PlacedInductive ==
    ASSUME Typed, Placed, TurnsInOrder, WithinLimit, [Next]_vars
    PROVE  Placed'
<1> USE DEF Typed, TypeOK, Placed
<1>1. CASE StartRun
  BY <1>1 DEF StartRun
<1>2. CASE ChairAtLimit \/ ChairFinishes \/ ChairStumbles
  BY <1>2 DEF ChairAtLimit, ChairFinishes, ChairStumbles, EndRun
<1>3. CASE ChairGivesUp \/ \E a \in Attendee : ChairNames(a)
  BY <1>3 DEF ChairNames, ChairGivesUp, EndRun, GiveTurn, Unheard, Exhausted
<1>4. CASE LookUp
  BY <1>4 DEF LookUp, Say
<1>5. CASE IssueTurn
  <2>1. Typed'
    BY TypeInductive
  <2>2. answer' # None /\ Key(answer') = key
    BY <1>5, <2>1 DEF IssueTurn
  <2>3. QED
    BY <1>5, <2>2 DEF IssueTurn
<1>6. CASE Answer \/ Record
  BY <1>6 DEF Answer, Record
<1>7. CASE TurnFails \/ Return
  BY <1>7 DEF TurnFails, Return, Say
<1>8. CASE TransportFails
  BY <1>8 DEF TransportFails, Say
<1>9. CASE GraphFails \/ Cut \/ \E a \in Attendee : PodLost(a)
  BY <1>9 DEF GraphFails, EndRun, Cut, PodLost
<1>10. CASE UNCHANGED vars
  BY <1>10
<1>11. QED
  BY <1>1, <1>2, <1>3, <1>4, <1>5, <1>6, <1>7, <1>8, <1>9, <1>10
     DEF Next, ChairStep, TurnStep

\* The store and the caches get what the model said, and a turn that failed says
\* nothing they could get.
LEMMA GenuineInductive ==
    ASSUME Typed, Placed, Genuine, [Next]_vars
    PROVE  Genuine'
<1> USE DEF Typed, TypeOK, Placed, Genuine
<1>1. CASE StartRun
  BY <1>1 DEF StartRun
<1>2. CASE ChairStep
  BY <1>2 DEF ChairStep, ChairAtLimit, ChairFinishes, ChairStumbles, ChairNames,
              ChairGivesUp, EndRun, GiveTurn
<1>3. CASE LookUp
  BY <1>3 DEF LookUp, Say
<1>4. CASE IssueTurn
  <2>1. CASE UNCHANGED asked /\ answer' \in cache[next]
    BY <1>4, <2>1 DEF IssueTurn
  <2>2. CASE Of(key, cache[next]) = {}
    <3> DEFINE u == [by |-> next, turn |-> turn, take |-> Cardinality(Of(key, asked)) + 1]
    <3>1. Cardinality(Of(key, asked)) \in Nat
      BY FS_Subset, FS_CardinalityType
    <3>2. u.take # 0
      BY <3>1
    <3>3. asked' = asked \union {u} /\ answer' = u
      BY <1>4, <2>2 DEF IssueTurn
    <3> HIDE DEF u
    <3>4. QED
      BY <1>4, <3>2, <3>3 DEF IssueTurn
  <2>3. QED
    BY <1>4, <2>1, <2>2 DEF IssueTurn
<1>5. CASE Answer
  BY <1>5 DEF Answer, Remember
<1>6. CASE TurnFails \/ TransportFails \/ Return
  BY <1>6 DEF TurnFails, TransportFails, Return, Say
<1>7. CASE Record
  BY <1>7 DEF Record
<1>8. CASE GraphFails \/ Cut \/ \E a \in Attendee : PodLost(a)
  BY <1>8 DEF GraphFails, EndRun, Cut, PodLost
<1>9. CASE UNCHANGED vars
  BY <1>9
<1>10. QED
  BY <1>1, <1>2, <1>3, <1>4, <1>5, <1>6, <1>7, <1>8, <1>9 DEF Next, TurnStep

\* Saying the turn's utterance keeps the transcript in step with the counter.
LEMMA SayingKeepsOrder ==
    ASSUME Typed, Placed, TurnsInOrder, pc \in InTurn,
           NEW u \in Utterance, u.turn = turn, Say(u), UNCHANGED turn
    PROVE  TurnsInOrder' /\ WithinLimit'
<1> USE DEF Typed, TypeOK, Placed, TurnsInOrder, WithinLimit
<1>1. transcript \in Seq(Utterance) /\ transcript' = Append(transcript, u) /\ pc' = "chair"
  BY DEF Say
<1>2. /\ Len(transcript') = Len(transcript) + 1
      /\ DOMAIN transcript' = 1 .. Len(transcript) + 1
      /\ \A i \in 1 .. Len(transcript) : transcript'[i] = transcript[i]
      /\ transcript'[Len(transcript) + 1] = u
  BY <1>1
<1>3. QED
  BY <1>1, <1>2

LEMMA OrderInductive ==
    ASSUME Typed, Placed, TurnsInOrder, WithinLimit, [Next]_vars
    PROVE  TurnsInOrder' /\ WithinLimit'
<1> USE DEF Typed, TypeOK
<1>1. CASE StartRun
  BY <1>1 DEF StartRun, TurnsInOrder, WithinLimit
<1>2. CASE ChairAtLimit \/ ChairFinishes \/ ChairStumbles \/ \E a \in Attendee : ChairNames(a)
  BY <1>2 DEF ChairAtLimit, ChairFinishes, ChairStumbles, ChairNames, EndRun, GiveTurn,
              TurnsInOrder, WithinLimit
<1>3. CASE ChairGivesUp
  BY <1>3 DEF ChairGivesUp, EndRun, GiveTurn, TurnsInOrder, WithinLimit
<1>4. CASE LookUp
  <2>1. ASSUME NEW u \in Of(key, store), Say(u) PROVE TurnsInOrder' /\ WithinLimit'
    BY <1>4, <2>1, SaidIsTyped, SayingKeepsOrder DEF LookUp
  <2>2. CASE pc' = "issue" /\ UNCHANGED talk
    BY <1>4, <2>2 DEF LookUp, TurnsInOrder, WithinLimit
  <2>3. QED
    BY <1>4, <2>1, <2>2 DEF LookUp
<1>5. CASE IssueTurn \/ Answer \/ Record
  BY <1>5 DEF IssueTurn, Answer, Record, TurnsInOrder, WithinLimit
<1>6. CASE TurnFails
  BY <1>6, SaidIsTyped, SayingKeepsOrder DEF TurnFails, Failed
<1>7. CASE TransportFails
  <2>1. CASE Say(Failed)
    BY <1>7, <2>1, SaidIsTyped, SayingKeepsOrder DEF TransportFails, Failed
  <2>2. CASE pc' = "issue" /\ UNCHANGED talk
    BY <1>7, <2>2 DEF TransportFails, TurnsInOrder, WithinLimit
  <2>3. QED
    BY <1>7, <2>1, <2>2 DEF TransportFails
<1>8. CASE Return
  BY <1>8, SaidIsTyped, SayingKeepsOrder DEF Return, Placed
<1>9. CASE GraphFails \/ Cut \/ \E a \in Attendee : PodLost(a)
  BY <1>9 DEF GraphFails, EndRun, Cut, PodLost, TurnsInOrder, WithinLimit
<1>10. CASE UNCHANGED vars
  BY <1>10 DEF TurnsInOrder, WithinLimit
<1>11. QED
  BY <1>1, <1>2, <1>3, <1>4, <1>5, <1>6, <1>7, <1>8, <1>9, <1>10
     DEF Next, ChairStep, TurnStep

\* A turn that passed the lookup has no row or is excused, and stays so until it
\* is recorded: no other turn is taken meanwhile.
LEMMA RecordedInductive ==
    ASSUME Typed, Placed, Recorded, [Next]_vars
    PROVE  Recorded'
<1> USE DEF Typed, TypeOK, Placed, Recorded
<1>1. CASE StartRun
  BY <1>1 DEF StartRun
<1>2. CASE ChairStep
  BY <1>2 DEF ChairStep, ChairAtLimit, ChairFinishes, ChairStumbles, ChairNames,
              ChairGivesUp, EndRun, GiveTurn
<1>3. CASE LookUp
  BY <1>3 DEF LookUp, Say
<1>4. CASE IssueTurn \/ Answer
  BY <1>4 DEF IssueTurn, Answer
<1>5. CASE TurnFails \/ TransportFails \/ Return
  BY <1>5 DEF TurnFails, TransportFails, Return, Say
<1>6. CASE Record
  <2>1. CASE Of(key, store) = {} /\ store' = store \union {answer}
    BY <1>6, <2>1 DEF Record
  <2>2. CASE UNCHANGED store
    BY <1>6, <2>2 DEF Record
  <2>3. QED
    BY <1>6, <2>1, <2>2 DEF Record
<1>7. CASE GraphFails \/ Cut \/ \E a \in Attendee : PodLost(a)
  BY <1>7 DEF GraphFails, EndRun, Cut, PodLost
<1>8. CASE UNCHANGED vars
  BY <1>8
<1>9. QED
  BY <1>1, <1>2, <1>3, <1>4, <1>5, <1>6, <1>7, <1>8 DEF Next, TurnStep

\* What a step that says an utterance owes RecordIsWhatWasHeard.
LEMMA SayingWhatIsRecorded ==
    ASSUME Typed, RecordIsWhatWasHeard, NEW u \in Utterance, Say(u),
           UNCHANGED <<store, missed>>,
           \A v \in store : Key(v) = Key(u) => v = u \/ Key(v) \in missed
    PROVE  RecordIsWhatWasHeard'
<1>1. transcript \in Seq(Utterance) /\ transcript' = Append(transcript, u)
  BY DEF Say, Typed, TypeOK
<1>2. ASSUME NEW i \in DOMAIN transcript' PROVE i \in DOMAIN transcript \/ transcript'[i] = u
  BY <1>1, <1>2
<1>3. \A i \in DOMAIN transcript : transcript'[i] = transcript[i]
  BY <1>1
<1>4. QED
  BY <1>2, <1>3 DEF RecordIsWhatWasHeard

LEMMA HeardInductive ==
    ASSUME Typed, Placed, TurnsInOrder, Recorded, RecordIsWhatWasHeard, [Next]_vars
    PROVE  RecordIsWhatWasHeard'
<1> USE DEF Typed, TypeOK
<1>1. CASE StartRun
  BY <1>1 DEF StartRun, RecordIsWhatWasHeard
<1>2. CASE UNCHANGED <<transcript, store, missed>>
  BY <1>2 DEF RecordIsWhatWasHeard
<1>3. CASE LookUp
  <2>1. ASSUME NEW u \in Of(key, store), Say(u), UNCHANGED missed
        PROVE RecordIsWhatWasHeard'
    <3>1. u \in Utterance /\ UNCHANGED store
      BY <1>3, <2>1 DEF LookUp
    <3>2. \A v \in store : Key(v) = Key(u) => v = u
      BY <2>1 DEF Recorded
    <3>3. QED
      BY <2>1, <3>1, <3>2, SayingWhatIsRecorded
  <2>2. CASE missed \subseteq missed' /\ UNCHANGED <<store, transcript>>
    BY <2>2 DEF RecordIsWhatWasHeard
  <2>3. QED
    BY <1>3, <2>1, <2>2 DEF LookUp
<1>4. CASE TurnFails
  BY <1>4, SaidIsTyped, SayingWhatIsRecorded DEF TurnFails, Failed, Recorded
<1>5. CASE TransportFails
  <2>1. CASE Say(Failed)
    BY <1>5, <2>1, SaidIsTyped, SayingWhatIsRecorded DEF TransportFails, Failed, Recorded
  <2>2. QED
    BY <1>2, <1>5, <2>1 DEF TransportFails
<1>6. CASE Record
  <2>1. CASE store' = store \union {answer} /\ UNCHANGED <<transcript, missed>>
    <3>1. \A i \in DOMAIN transcript : Key(transcript[i]) # Key(answer)
      BY <1>6 DEF Record, Placed, TurnsInOrder
    <3>2. QED
      BY <2>1, <3>1 DEF RecordIsWhatWasHeard
  <2>2. QED
    BY <1>2, <1>6, <2>1 DEF Record
<1>7. CASE Return
  BY <1>7, SaidIsTyped, SayingWhatIsRecorded DEF Return, Placed, Recorded
<1>8. QED
  BY <1>1, <1>2, <1>3, <1>4, <1>5, <1>6, <1>7
     DEF Next, ChairStep, TurnStep, ChairAtLimit, ChairFinishes, ChairStumbles, ChairNames,
         ChairGivesUp, EndRun, GiveTurn, IssueTurn, Answer, GraphFails, Cut, PodLost

\* An utterance said in the first run is in its thread and in its transcript.
LEMMA SayingKeepsThread ==
    ASSUME Typed, FirstThread, NEW u \in Utterance, Say(u), UNCHANGED run, pc # "idle"
    PROVE  FirstThread'
<1>1. transcript \in Seq(Utterance) /\ transcript' = Append(transcript, u)
  BY DEF Say, Typed, TypeOK
<1>2. /\ \A i \in DOMAIN transcript : i \in DOMAIN transcript' /\ transcript'[i] = transcript[i]
      /\ \E i \in DOMAIN transcript' : transcript'[i] = u
  <2>1. Len(transcript) + 1 \in DOMAIN transcript' /\ transcript'[Len(transcript) + 1] = u
    BY <1>1
  <2>2. ASSUME NEW i \in DOMAIN transcript
        PROVE  i \in DOMAIN transcript' /\ transcript'[i] = transcript[i]
    BY <1>1
  <2>3. QED
    BY <2>1, <2>2
<1>3. run # 0
  BY DEF FirstThread
<1>4. ASSUME run <= 1, NEW v \in thread' PROVE \E i \in DOMAIN transcript' : transcript'[i] = v
  <2>1. CASE v = u
    BY <1>2, <2>1
  <2>2. CASE v \in thread
    BY <1>2, <1>4, <2>2 DEF FirstThread
  <2>3. QED
    BY <1>4, <2>1, <2>2 DEF Say
<1>5. QED
  BY <1>3, <1>4 DEF FirstThread

LEMMA FirstThreadInductive ==
    ASSUME Typed, Placed, FirstThread, [Next]_vars
    PROVE  FirstThread'
<1> USE DEF Typed, TypeOK
<1>1. CASE StartRun
  BY <1>1 DEF StartRun, FirstThread
<1>2. CASE pc # "idle" /\ UNCHANGED <<run, thread, transcript>>
  BY <1>2 DEF FirstThread
<1>3. CASE LookUp
  <2>1. ASSUME NEW u \in Of(key, store), Say(u) PROVE FirstThread'
    BY <1>3, <2>1, SaidIsTyped, SayingKeepsThread DEF LookUp
  <2>2. QED
    BY <1>2, <1>3, <2>1 DEF LookUp
<1>4. CASE TurnFails
  BY <1>4, SaidIsTyped, SayingKeepsThread DEF TurnFails
<1>5. CASE TransportFails
  BY <1>2, <1>5, SaidIsTyped, SayingKeepsThread DEF TransportFails
<1>6. CASE Return
  BY <1>6, SaidIsTyped, SayingKeepsThread DEF Return
<1>7. CASE Cut
  BY <1>7 DEF Cut, FirstThread
<1>8. CASE UNCHANGED vars \/ \E a \in Attendee : PodLost(a)
  BY <1>8 DEF PodLost, FirstThread
<1>9. QED
  BY <1>1, <1>2, <1>3, <1>4, <1>5, <1>6, <1>7, <1>8
     DEF Next, ChairStep, TurnStep, ChairAtLimit, ChairFinishes, ChairStumbles, ChairNames,
         ChairGivesUp, EndRun, GiveTurn, IssueTurn, Answer, Record, GraphFails

LEMMA EveryoneInductive ==
    ASSUME Typed, FirstThread, EveryoneHeardFirst, [Next]_vars
    PROVE  EveryoneHeardFirst'
<1> USE DEF Typed, TypeOK, EveryoneHeardFirst
<1>1. CASE StartRun
  BY <1>1 DEF StartRun
<1>2. CASE ChairGivesUp
  <2>1. CASE Unheard = {} /\ UNCHANGED <<run, transcript>>
    <3>1. \A a \in Attendee : \E u \in thread : u.by = a
      BY <2>1 DEF Unheard, Heard
    <3>2. QED
      BY <2>1, <3>1 DEF FirstThread
  <2>2. QED
    BY <1>2, <2>1 DEF ChairGivesUp, GiveTurn
<1>3. CASE why' # "gaveUp" \/ pc' # "over"
  BY <1>3
<1>4. CASE UNCHANGED <<run, pc, why, transcript>>
  BY <1>4
<1>5. QED
  BY <1>1, <1>2, <1>3, <1>4
     DEF Next, ChairStep, TurnStep, ChairAtLimit, ChairFinishes, ChairStumbles, ChairNames,
         EndRun, GiveTurn, LookUp, IssueTurn, Answer, TurnFails, TransportFails, Record,
         Return, Say, GraphFails, Cut, PodLost

\* The inductive invariant holds in every reachable state.
THEOREM Invariance == Spec => []IInv
<1>1. IInv /\ [Next]_vars => IInv'
  BY TypeInductive, PlacedInductive, GenuineInductive, OrderInductive, RecordedInductive,
     HeardInductive, FirstThreadInductive, EveryoneInductive DEF IInv
<1>2. QED
  BY <1>1, InitIsPlaced, PTL DEF Spec

\* Every variable has its type.
THEOREM Typing == Spec => []TypeOK
BY Invariance, PTL DEF IInv, Typed

\* However runs are cut and started again, a transcript has one entry for every
\* turn of its run, in order.
THEOREM OneEntryPerTurn == Spec => []TurnsInOrder
BY Invariance, PTL DEF IInv

\* No run hears more turns than the meeting's limit.
THEOREM LimitIsKept == Spec => []WithinLimit
BY Invariance, PTL DEF IInv

\* What a run's transcript holds for a recorded turn is its record, unless a
\* lookup of it failed.
THEOREM TranscriptIsTheRecord == Spec => []RecordIsWhatWasHeard
BY Invariance, PTL DEF IInv

\* A chair that gives up in a meeting's first run has heard everyone.
THEOREM NobodyLeftUnheard == Spec => []EveryoneHeardFirst
BY Invariance, PTL DEF IInv

\* A recorded turn is not put to the model again, unless a lookup of it failed.
THEOREM RecordStopsReplay == Spec => RecordedNotReinvoked
<1> DEFINE Spared == \A u \in store :
                       Key(u) \in missed \/ Of(Key(u), asked') = Of(Key(u), asked)
<1>1. IInv /\ [Next]_vars => [Spared]_vars
  <2>1. ASSUME IInv, IssueTurn PROVE Spared
    <3>1. UNCHANGED asked \/ (asked' = asked \union {answer'} /\ Key(answer') = key)
      BY <2>1 DEF IssueTurn, IInv, Typed, TypeOK
    <3>2. \A u \in store : Key(u) = key => key \in missed
      BY <2>1 DEF IInv, Recorded, IssueTurn
    <3>3. QED
      BY <3>1, <3>2
  <2>2. CASE UNCHANGED asked
    BY <2>2
  <2>3. QED
    BY <2>1, <2>2
       DEF Next, ChairStep, TurnStep, StartRun, ChairAtLimit, ChairFinishes, ChairStumbles,
           ChairNames, ChairGivesUp, EndRun, GiveTurn, LookUp, Answer, TurnFails,
           TransportFails, Record, Return, GraphFails, Cut, PodLost
<1>2. QED
  BY <1>1, Invariance, PTL DEF Spec, RecordedNotReinvoked
-----------------------------------------------------------------------------
(***************************************************************************)
(* The minutes.                                                            *)
(***************************************************************************)
\* An utterance that a turn may say is heard.
LEMMA SayIsHear ==
    ASSUME IInv, pc \in InTurn, NEW u \in asked \union Kept!Silence, Say(u), Key(u) = key,
           \A v \in store : Key(v) = key => v = u \/ key \in missed,
           UNCHANGED <<why, turn, asked, store, missed>>
    PROVE  Kept!MinutesNext
<1> USE DEF IInv, Typed, TypeOK, Placed, TurnsInOrder
<1>1. u.turn = turn /\ u.by = next /\ Kept!Due(u)
  BY DEF Kept!Due
<1>2. Kept!AsRecorded(u)
  BY DEF Kept!AsRecorded, Kept!Turn
<1>3. thread' = thread \union {u} /\ transcript' = Append(transcript, u) /\ pc' = "chair"
  BY DEF Say
<1>4. Heard' = Heard \union {u.by}
  BY <1>3 DEF Heard
<1>5. Kept!Hear(u)
  BY <1>1, <1>2, <1>3, <1>4 DEF Kept!Hear
<1>6. QED
  BY <1>5 DEF Kept!MinutesNext

\* A failed turn is a silence.
LEMMA FailedIsSilence ==
    ASSUME IInv, pc \in InTurn
    PROVE  Failed \in Kept!Silence /\ Key(Failed) = key
BY DEF IInv, Typed, TypeOK, Placed, TurnsInOrder, Failed, Kept!Silence

\* Losing one utterance loses its speaker, or nobody.
LEMMA LosingOne ==
    ASSUME NEW said, NEW lost
    PROVE  \/ {u.by : u \in said \ {lost}} = {u.by : u \in said}
           \/ {u.by : u \in said \ {lost}} = {u.by : u \in said} \ {lost.by}
<1>1. CASE \E u \in said \ {lost} : u.by = lost.by
  BY <1>1
<1>2. CASE \A u \in said \ {lost} : u.by # lost.by
  BY <1>2
<1>3. QED
  BY <1>1, <1>2

\* Every step is one the minutes allow, or changes nothing in them.
LEMMA MinutesStep ==
    ASSUME IInv, [Next]_vars
    PROVE  [Kept!MinutesNext]_(Kept!minutesVars)
<1> USE DEF IInv, Typed, TypeOK
<1>1. ASSUME UNCHANGED <<why, transcript, thread, asked, store, missed>>,
             pc \in Active <=> pc' \in Active
      PROVE  UNCHANGED Kept!minutesVars
  BY <1>1 DEF Kept!minutesVars, Heard
<1>2. ASSUME NEW reason \in {"limit", "finish", "gaveUp", "error"}, EndRun(reason), pc \in Active,
             reason = "limit" => Len(transcript) = TurnLimit,
             reason = "gaveUp" => Heard = Attendee,
             UNCHANGED <<transcript, thread, asked, store, missed>>
      PROVE  Kept!MinutesNext
  <2>1. Kept!Close(reason)
    BY <1>2 DEF EndRun, Kept!Close, Heard
  <2>2. QED
    BY <2>1 DEF Kept!MinutesNext
<1>3. CASE StartRun
  <2>1. Kept!Open
    BY <1>3 DEF StartRun, Kept!Open, Heard
  <2>2. QED
    BY <2>1 DEF Kept!MinutesNext
<1>4. CASE ChairAtLimit
  <2>1. Len(transcript) = TurnLimit
    BY <1>4 DEF ChairAtLimit, Exhausted, TurnsInOrder, WithinLimit
  <2>2. QED
    BY <1>2, <1>4, <2>1 DEF ChairAtLimit
<1>5. CASE ChairFinishes
  BY <1>2, <1>5 DEF ChairFinishes
<1>6. CASE ChairStumbles \/ \E a \in Attendee : ChairNames(a)
  BY <1>1, <1>6 DEF ChairStumbles, ChairNames, GiveTurn
<1>7. CASE ChairGivesUp
  <2>1. CASE \E a \in Unheard : GiveTurn(a) /\ UNCHANGED why
    BY <1>1, <1>7, <2>1 DEF ChairGivesUp, GiveTurn
  <2>2. CASE Unheard = {} /\ EndRun("gaveUp")
    <3>1. Heard = Attendee
      BY <2>2 DEF Unheard, Heard
    <3>2. QED
      BY <1>2, <1>7, <2>2, <3>1 DEF ChairGivesUp
  <2>3. QED
    BY <1>7, <2>1, <2>2 DEF ChairGivesUp
<1>8. CASE LookUp
  <2>1. ASSUME NEW u \in Of(key, store), Say(u), UNCHANGED missed
        PROVE  Kept!MinutesNext
    <3>1. \A v \in store : Key(v) = key => v = u
      BY <2>1 DEF Recorded
    <3>2. u \in asked
      BY <2>1 DEF Genuine
    <3>3. QED
      BY <1>8, <2>1, <3>1, <3>2, SayIsHear DEF LookUp
  <2>2. CASE pc' = "issue" /\ Of(key, store) = {} /\ UNCHANGED <<missed, talk>>
    BY <1>1, <1>8, <2>2 DEF LookUp
  <2>3. ASSUME NEW u \in Of(key, store), pc' = "issue", missed' = missed \union {key},
               UNCHANGED talk
        PROVE  Kept!MinutesNext
    <3>1. Kept!Due(u)
      BY <1>8, <2>3 DEF LookUp, Kept!Due, Placed, TurnsInOrder
    <3>2. Kept!Lapse(u)
      BY <1>8, <2>3, <3>1 DEF LookUp, Kept!Lapse, Kept!Turn, Heard
    <3>3. QED
      BY <2>3, <3>2 DEF Kept!MinutesNext
  <2>4. QED
    BY <1>8, <2>1, <2>2, <2>3 DEF LookUp
<1>9. CASE IssueTurn
  <2>1. CASE UNCHANGED asked
    BY <1>1, <1>9, <2>1 DEF IssueTurn
  <2>2. CASE asked' = asked \union {answer'} /\ pc' = "thinking"
    <3>1. Genuine' /\ Placed' /\ UNCHANGED <<turn, next>>
      BY <1>9, PlacedInductive, GenuineInductive DEF IssueTurn
    <3>2. answer' \in asked' /\ answer'.take # 0 /\ Key(answer') = key
      BY <2>2, <3>1 DEF Genuine, Placed
    <3>3. Kept!Due(answer') /\ answer'.by \in Attendee
      BY <1>9, <3>2 DEF IssueTurn, Kept!Due, Placed, TurnsInOrder
    <3>4. \A v \in store : Key(v) = key => key \in missed
      BY <1>9 DEF IssueTurn, Recorded
    <3>5. Kept!Speak(answer')
      BY <1>9, <2>2, <3>2, <3>3, <3>4 DEF IssueTurn, Kept!Speak, Kept!Turn, Heard
    <3>6. QED
      BY <3>2, <3>5 DEF Kept!MinutesNext
  <2>3. QED
    BY <1>9, <2>1, <2>2 DEF IssueTurn
<1>10. CASE Answer
  BY <1>1, <1>10 DEF Answer
<1>11. CASE TurnFails
  BY <1>11, FailedIsSilence, SayIsHear DEF TurnFails, Recorded
<1>12. CASE TransportFails
  <2>1. CASE Say(Failed)
    BY <1>12, <2>1, FailedIsSilence, SayIsHear DEF TransportFails, Recorded
  <2>2. CASE pc' = "issue" /\ UNCHANGED talk
    BY <1>1, <1>12, <2>2 DEF TransportFails
  <2>3. QED
    BY <1>12, <2>1, <2>2 DEF TransportFails
<1>13. CASE Record
  <2>1. CASE Of(key, store) = {} /\ store' = store \union {answer}
    <3>1. answer \in asked /\ Key(answer) = key
      BY <1>13 DEF Record, Genuine, Placed
    <3>2. Kept!Due(answer)
      BY <1>13, <3>1 DEF Record, Kept!Due, Placed, TurnsInOrder
    <3>3. \A v \in store : Key(v) # key
      BY <2>1
    <3>4. Kept!Enter(answer)
      BY <1>13, <2>1, <3>1, <3>2, <3>3 DEF Record, Kept!Enter, Kept!Turn, Heard
    <3>5. QED
      BY <3>1, <3>4 DEF Kept!MinutesNext
  <2>2. CASE UNCHANGED store
    BY <1>1, <1>13, <2>2 DEF Record
  <2>3. QED
    BY <1>13, <2>1, <2>2 DEF Record
<1>14. CASE Return
  <2>1. answer \in asked /\ Key(answer) = key
    BY <1>14 DEF Return, Genuine, Placed
  <2>2. QED
    BY <1>14, <2>1, SayIsHear DEF Return, Recorded
<1>15. CASE GraphFails
  BY <1>2, <1>15 DEF GraphFails
<1>16. CASE Cut
  <2>1. Heard' = Heard \/ (transcript # <<>> /\ Heard' = Heard \ {transcript[Len(transcript)].by})
    <3>1. CASE UNCHANGED thread
      BY <3>1 DEF Heard
    <3>2. CASE transcript # <<>> /\ thread' = thread \ {transcript[Len(transcript)]}
      BY <3>2, LosingOne DEF Heard
    <3>3. QED
      BY <1>16, <3>1, <3>2 DEF Cut
  <2>2. Kept!BreakOff
    BY <1>16, <2>1 DEF Cut, Kept!BreakOff
  <2>3. QED
    BY <2>2 DEF Kept!MinutesNext
<1>17. CASE UNCHANGED vars \/ \E a \in Attendee : PodLost(a)
  BY <1>1, <1>17 DEF PodLost
<1>18. QED
  BY <1>3, <1>4, <1>5, <1>6, <1>7, <1>8, <1>9, <1>10, <1>11, <1>12, <1>13, <1>14, <1>15,
     <1>16, <1>17 DEF Next, ChairStep, TurnStep

\* The meeting keeps proper minutes, run after run.
THEOREM ImplementsMinutes == Spec => RefinesMinutes
<1>1. Init => Kept!MinutesInit
  BY DEF Init, Kept!MinutesInit, Heard
<1>2. IInv /\ [Next]_vars => [Kept!MinutesNext]_(Kept!minutesVars)
  BY MinutesStep
<1>3. QED
  BY <1>1, <1>2, Invariance, PTL DEF Spec, RefinesMinutes, Kept!MinutesSpec
-----------------------------------------------------------------------------
(***************************************************************************)
(* How long a run can be: the half of RunEnds that needs no fairness.      *)
(***************************************************************************)
\* Steps taken in the turn under way, the chair's for it included, if it is the
\* longest it can be: two stumbles, and a first sandbox lost with its answer.
StepsIn ==
    CASE pc = "chair"    -> attempt
      [] pc = "lookup"   -> 3
      [] pc = "issue"    -> IF tries = 0 THEN 4 ELSE 7
      [] pc = "thinking" -> IF tries = 0 THEN 5 ELSE 8
      [] pc = "answered" -> IF tries = 0 THEN 6 ELSE 9
      [] OTHER           -> 10

\* Steps left in the run: eleven for each turn not heard yet, and the chair's last.
StepsLeft ==
    IF pc \in Active THEN 11 * (TurnLimit - Len(transcript)) + 1 - StepsIn ELSE 0

\* A step of the run leaves it fewer, and a lost pod leaves it as many.
Shortens ==
    /\ ChairStep \/ TurnStep => StepsLeft' < StepsLeft
    /\ \A a \in Attendee : PodLost(a) => StepsLeft' = StepsLeft

\* The chair begins every turn, and its last step, at its first attempt.
FirstAttempt == pc \in InTurn \/ (pc = "chair" /\ Exhausted) => attempt = 0

LEMMA FirstAttemptInductive ==
    ASSUME Typed, FirstAttempt, [Next]_vars
    PROVE  FirstAttempt'
<1> USE DEF Typed, TypeOK, FirstAttempt, Exhausted
<1>1. CASE StartRun
  BY <1>1 DEF StartRun
<1>2. CASE ChairStep
  BY <1>2 DEF ChairStep, ChairAtLimit, ChairFinishes, ChairStumbles, ChairNames,
              ChairGivesUp, EndRun, GiveTurn
<1>3. CASE TurnStep
  BY <1>3 DEF TurnStep, LookUp, IssueTurn, Answer, TurnFails, TransportFails, Record,
              Return, Say
<1>4. CASE GraphFails \/ Cut \/ \E a \in Attendee : PodLost(a)
  BY <1>4 DEF GraphFails, EndRun, Cut, PodLost
<1>5. CASE UNCHANGED vars
  BY <1>5
<1>6. QED
  BY <1>1, <1>2, <1>3, <1>4, <1>5 DEF Next

\* There is a step left as long as the run is under way, and never more than its
\* limit allows.
LEMMA LeftIsBounded ==
    ASSUME IInv, FirstAttempt
    PROVE  /\ StepsLeft \in 0 .. 11 * TurnLimit + 1
           /\ pc \in Active => StepsLeft > 0
<1> USE DEF IInv, Typed, TypeOK
<1>1. Len(transcript) \in Nat /\ Len(transcript) <= TurnLimit
  BY DEF WithinLimit
<1>2. CASE pc \in InTurn
  <2>1. Len(transcript) + 1 <= TurnLimit
    BY <1>2, <1>1 DEF TurnsInOrder, Placed
  <2>2. StepsIn \in 0 .. 10
    BY <1>2 DEF StepsIn
  <2>3. QED
    BY <1>1, <1>2, <2>1, <2>2 DEF StepsLeft
<1>3. CASE pc = "chair"
  <2>1. StepsIn = attempt /\ Len(transcript) = turn
    BY <1>3 DEF StepsIn, TurnsInOrder
  <2>2. attempt = 0 \/ Len(transcript) + 1 <= TurnLimit
    BY <1>1, <1>3, <2>1 DEF FirstAttempt, Exhausted
  <2>3. QED
    BY <1>1, <1>3, <2>1, <2>2 DEF StepsLeft
<1>4. CASE pc \notin Active
  BY <1>4 DEF StepsLeft
<1>5. QED
  BY <1>2, <1>3, <1>4

\* The turn is heard: the transcript is longer by one.
LEMMA SayingShortens ==
    ASSUME IInv, pc \in InTurn, NEW u, Say(u), attempt' = attempt, FirstAttempt
    PROVE  StepsLeft' < StepsLeft
<1> USE DEF IInv, Typed, TypeOK
<1>1. Len(transcript) \in Nat /\ Len(transcript') = Len(transcript) + 1 /\ pc' = "chair"
  BY DEF Say
<1>2. StepsIn' = 0
  BY <1>1 DEF StepsIn, FirstAttempt
<1>3. StepsIn \in 0 .. 10
  BY DEF StepsIn
<1>4. QED
  BY <1>1, <1>2, <1>3 DEF StepsLeft

\* Two lengths are compared: of what was heard, and of the way into the turn.
LEMMA ShortensStep ==
    ASSUME IInv, FirstAttempt, Next
    PROVE  Shortens
<1> USE DEF IInv, Typed, TypeOK
<1>1. Len(transcript) \in Nat
  OBVIOUS
\* The run ends.
<1>2. ASSUME pc \in Active, pc' \notin Active PROVE StepsLeft' < StepsLeft
  BY <1>2, LeftIsBounded DEF StepsLeft
\* The turn goes on.
<1>3. ASSUME pc \in Active, pc' \in Active, UNCHANGED transcript,
             StepsIn \in Nat, StepsIn' \in Nat, StepsIn' > StepsIn
      PROVE  StepsLeft' < StepsLeft
  BY <1>1, <1>3 DEF StepsLeft
<1>4. ASSUME ChairStep PROVE StepsLeft' < StepsLeft
  <2>1. CASE pc' = "over"
    BY <1>2, <1>4, <2>1
       DEF ChairStep, ChairAtLimit, ChairFinishes, ChairStumbles, ChairNames, ChairGivesUp
  <2>2. CASE ChairStumbles
    BY <1>3, <2>2 DEF ChairStumbles, StepsIn
  <2>3. CASE \E a \in Attendee : GiveTurn(a) /\ pc = "chair" /\ UNCHANGED transcript
    BY <1>3, <2>3 DEF GiveTurn, StepsIn
  <2>4. QED
    BY <1>4, <2>1, <2>2, <2>3
       DEF ChairStep, ChairAtLimit, ChairFinishes, ChairNames, ChairGivesUp, EndRun, Unheard
<1>5. ASSUME TurnStep PROVE StepsLeft' < StepsLeft
  <2>1. ASSUME NEW u, Say(u) PROVE StepsLeft' < StepsLeft
    BY <1>5, <2>1, SayingShortens
       DEF TurnStep, LookUp, IssueTurn, Answer, TurnFails, TransportFails, Record, Return
  <2>2. CASE LookUp \/ IssueTurn
    BY <1>3, <2>1, <2>2 DEF LookUp, IssueTurn, StepsIn
  <2>3. CASE Answer \/ Record
    BY <1>3, <2>3 DEF Answer, Record, StepsIn
  <2>4. CASE TurnFails \/ Return
    BY <2>1, <2>4 DEF TurnFails, Return
  <2>5. CASE TransportFails
    BY <1>3, <2>1, <2>5 DEF TransportFails, StepsIn
  <2>6. QED
    BY <1>5, <2>2, <2>3, <2>4, <2>5 DEF TurnStep
<1>6. ASSUME NEW a \in Attendee, PodLost(a) PROVE StepsLeft' = StepsLeft
  BY <1>6 DEF PodLost, StepsLeft, StepsIn
<1>7. QED
  BY <1>4, <1>5, <1>6 DEF Shortens

\* Whatever the models answer and however often pods are lost, a run takes at most
\* eleven steps for each turn of its limit, and one more.
THEOREM RunsAreBounded ==
    Spec => /\ [](StepsLeft \in 0 .. 11 * TurnLimit + 1)
            /\ [](pc \in Active => StepsLeft > 0)
            /\ [][Shortens]_vars
<1>1. Init => FirstAttempt
  BY DEF Init, FirstAttempt
<1>2. IInv /\ FirstAttempt /\ [Next]_vars => FirstAttempt'
  BY FirstAttemptInductive DEF IInv
<1>3. Spec => [](IInv /\ FirstAttempt)
  BY <1>1, <1>2, Invariance, PTL DEF Spec
<1>4. IInv /\ FirstAttempt
        => StepsLeft \in 0 .. 11 * TurnLimit + 1 /\ (pc \in Active => StepsLeft > 0)
  BY LeftIsBounded
<1>5. IInv /\ FirstAttempt /\ [Next]_vars => [Shortens]_vars
  BY ShortensStep
<1>6. QED
  BY <1>3, <1>4, <1>5, PTL DEF Spec

-----------------------------------------------------------------------------
(***************************************************************************)
(* How the chair's replies are read.                                       *)
(***************************************************************************)
\* The attendee an answer hands the turn to is the one whose id it is, or the
\* only one it fits: an answer that fits several, or is too short to mean
\* anyone, gives the turn to nobody.
THEOREM OnlyTheNamed ==
    ASSUME NEW w \in Word, NEW a \in Attendee, Decision(w) = a
    PROVE  w.id = a \/ (w.id = None /\ w.hits = {a} /\ ~ w.short /\ ~ w.finish)
<1>1. w # None /\ a # FINISH /\ a # Unresolved
  BY WordsAreRead, SpecialNames
<1>2. recover_speaker_id(w) = a
  BY <1>1 DEF Decision
<1>3. CASE w.id # None
  BY <1>1, <1>2, <1>3 DEF recover_speaker_id
<1>4. CASE w.id = None
  <2>1. ~ w.finish /\ Fuzzy(w) # {} /\ a = CHOOSE b \in w.hits : TRUE
    BY <1>1, <1>2, <1>4 DEF recover_speaker_id
  <2>2. PICK b \in w.hits : ~ w.short /\ w.hits = {b}
    BY <2>1 DEF Fuzzy
  <2>3. a = b
    BY <2>1, <2>2
  <2>4. QED
    BY <1>4, <2>1, <2>2, <2>3
<1>5. QED
  BY <1>3, <1>4

\* The chair's word is that of the first rung that gives one: the tool calls of
\* the first reply; those of the larger budget, spent only where that reply was cut
\* off at the cap; and the plain text last, where neither of them gave anything.
THEOREM LadderInOrder ==
    ASSUME NEW tools, NEW retry, NEW text
    PROVE  LET word == structured_call(tools, retry, text)
               widened == Truncated(tools) /\ Usable(retry) # None
           IN  /\ Usable(tools) # None => word = Usable(tools)
               /\ Usable(tools) = None /\ widened => word = Usable(retry)
               /\ Usable(tools) = None /\ ~ widened => word = Usable(text)
<1> DEFINE middle == IF Truncated(tools) THEN Usable(retry) ELSE None
           rungs == <<Usable(tools), middle, Usable(text)>>
           Given(i) == rungs[i] # None /\ \A j \in 1..(i - 1) : rungs[j] = None
<1>1. structured_call(tools, retry, text) = First(rungs)
  BY DEF structured_call
<1>2. DOMAIN rungs = {1, 2, 3}
  OBVIOUS
<1>3. rungs[1] = Usable(tools) /\ rungs[2] = middle /\ rungs[3] = Usable(text)
  OBVIOUS
\* A rung that gives a word where those before it gave none is the one chosen.
<1>4. ASSUME NEW i \in {1, 2, 3}, Given(i) PROVE First(rungs) = rungs[i]
  <2>1. \A k \in {1, 2, 3} : Given(k) => k = i
    <3>1. SUFFICES ASSUME NEW k \in {1, 2, 3}, Given(k), k # i PROVE FALSE
      OBVIOUS
    <3>2. k \in 1..(i - 1) \/ i \in 1..(k - 1)
      BY <3>1
    <3>3. QED
      BY <1>4, <3>1, <3>2
  <2>2. (CHOOSE k \in DOMAIN rungs : Given(k)) = i
    BY <1>2, <1>4, <2>1
  <2>3. QED
    BY <1>2, <1>4, <2>2 DEF First
<1>5. (\A i \in {1, 2, 3} : rungs[i] = None) => First(rungs) = None
  BY <1>2 DEF First
<1> HIDE DEF rungs
<1>6. ASSUME Usable(tools) # None PROVE First(rungs) = Usable(tools)
  <2>1. Given(1)
    BY <1>3, <1>6
  <2>2. QED
    BY <1>3, <1>4, <2>1
<1>7. ASSUME Usable(tools) = None, middle # None PROVE First(rungs) = middle
  <2>1. \A j \in 1..(2 - 1) : j = 1
    OBVIOUS
  <2>2. Given(2)
    BY <1>3, <1>7, <2>1
  <2>3. QED
    BY <1>3, <1>4, <2>2
<1>8. ASSUME Usable(tools) = None, middle = None PROVE First(rungs) = Usable(text)
  <2>1. \A j \in 1..(3 - 1) : j = 1 \/ j = 2
    OBVIOUS
  <2>2. CASE Usable(text) # None
    <3>1. Given(3)
      BY <1>3, <1>8, <2>1, <2>2
    <3>2. QED
      BY <1>3, <1>4, <3>1
  <2>3. CASE Usable(text) = None
    BY <1>3, <1>5, <1>8, <2>3
  <2>4. QED
    BY <2>2, <2>3
<1>9. QED
  BY <1>1, <1>6, <1>7, <1>8
=============================================================================
