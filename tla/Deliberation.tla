---------------------------- MODULE Deliberation ----------------------------
(***************************************************************************)
(* What is said in one meeting, run after run: the chair's node            *)
(* (orchestration/supervisor.py), the router (graph.py), an attendee's     *)
(* node (agents.py) with the turn store that outlives everything           *)
(* (services/turn_cache.py), and the persona runtime with the turn cache   *)
(* that dies with its pod (sandbox/runtime).                               *)
(*                                                                         *)
(* Runs do not overlap here (Meetings!OneTaskPerMeeting).  A run can be    *)
(* cut at any await, by a stop, a closed tab or a crash, and any meeting   *)
(* can be started again.  The checkpointer's thread is the meeting's, so   *)
(* a new run finds the messages of the earlier ones, but it is always      *)
(* given an initial state: it begins at the chair, at turn 0.              *)
(***************************************************************************)
EXTENDS ChairAnswer, FiniteSets

CONSTANTS
    Attendee,
    Word,        \* what a model may give as the next speaker (ChairAnswer)
    TurnLimit,   \* the meeting's turn_limit
    MaxRuns,     \* bound on the runs
    MaxEntries   \* entries the runtime's turn cache holds (MAX_ENTRIES)

ASSUME WordsAreRead ==
    \A w \in Word : /\ w # None /\ w.hits \subseteq Attendee
                   /\ w.id \in Attendee \union {None}
ASSUME SpecialNames == {FINISH, Unresolved} \intersect Attendee = {}
ASSUME LimitIsPositive == TurnLimit \in Nat \ {0}
ASSUME EntriesIsPositive == MaxEntries \in Nat \ {0}
ASSUME RunsBounded == MaxRuns \in Nat
ASSUME NoneIsNobody == None \notin Attendee /\ None \notin [by : Attendee, turn : Nat, take : Nat]

VARIABLES
    run,         \* runs so far
    pc,          \* where the run is
    why,         \* what ended the last run that ended by itself
    turn,        \* current_turn
    next,        \* next_speaker
    attempt,     \* the chair's attempt at a decision
    tries,       \* the attendee's attempt at its turn
    answer,      \* the utterance on its way back from the runtime
    thread,      \* the utterances in the checkpointed messages
    transcript,  \* the utterances streamed by this run
    store,       \* turn_results: at most one utterance per turn key
    cache,       \* cache[a]: the turn cache in the runtime of a's pod
    asked,       \* history: the model calls that were started
    missed       \* history: turn keys whose lookup failed though recorded

chair  == <<why, turn, next, attempt>>
talk   == <<thread, transcript>>
memory == <<store, cache>>
vars   == <<run, pc, chair, tries, answer, talk, memory, asked, missed>>

\* What an attendee says in a turn.  A model call makes a new take; take 0 is
\* the placeholder of a turn that failed.
Utterance == [by : Attendee, turn : Nat, take : Nat]
Failed == [by |-> next, turn |-> turn, take |-> 0]

Key(u) == <<u.turn, u.by>>
key == <<turn, next>>                                   \* turn_key
Of(k, said) == {u \in said : Key(u) = k}
Heard == {u.by : u \in thread}
Unheard == Attendee \ Heard

InTurn == {"lookup", "issue", "thinking", "answered", "recorded"}
Active == InTurn \union {"chair"}
Reasons == {None, "limit", "finish", "gaveUp", "error"}

Init ==
    /\ run = 0
    /\ pc = "idle"
    /\ why = None
    /\ turn = 0
    /\ next = None
    /\ attempt = 0
    /\ tries = 0
    /\ answer = None
    /\ thread = {}
    /\ transcript = <<>>
    /\ store = {}
    /\ cache = [a \in Attendee |-> {}]
    /\ asked = {}
    /\ missed = {}

StartRun ==
    /\ pc \in {"idle", "over"}
    /\ run < MaxRuns
    /\ run' = run + 1
    /\ pc' = "chair"
    /\ why' = None
    /\ turn' = 0
    /\ attempt' = 0
    /\ transcript' = <<>>
    /\ UNCHANGED <<next, tries, answer, thread, memory, asked, missed>>
-----------------------------------------------------------------------------
(***************************************************************************)
(* The chair.                                                              *)
(***************************************************************************)
\* A run that ends by itself gives its sandboxes back.
EndRun(reason) ==
    /\ pc' = "over"
    /\ why' = reason
    /\ cache' = [a \in Attendee |-> {}]

GiveTurn(a) ==
    /\ pc' = "lookup"
    /\ next' = a
    /\ turn' = turn + 1
    /\ attempt' = 0

Exhausted == turn >= TurnLimit

ChairAtLimit ==
    /\ pc = "chair"
    /\ Exhausted
    /\ EndRun("limit")
    /\ UNCHANGED <<run, turn, next, attempt, tries, answer, talk, store, asked, missed>>

\* What the chair can read out of this attempt; no rung of structured_call need
\* give anything.
Reads(outcome) == \E w \in Word \union {None} : Decision(w) = outcome

\* The model names an attendee, by id or by anything recover_speaker_id resolves
\* to one.
ChairNames(a) ==
    /\ pc = "chair"
    /\ ~Exhausted
    /\ Reads(a)
    /\ GiveTurn(a)
    /\ UNCHANGED <<run, why, tries, answer, talk, memory, asked, missed>>

ChairFinishes ==
    /\ pc = "chair"
    /\ ~Exhausted
    /\ Reads(FINISH)
    /\ EndRun("finish")
    /\ turn' = turn + 1
    /\ UNCHANGED <<run, next, attempt, tries, answer, talk, store, asked, missed>>

\* Mutation: the attempts are not counted.
StumbleAgain ==
    /\ pc = "chair"
    /\ ~Exhausted
    /\ attempt' = attempt + 1
    /\ UNCHANGED <<run, pc, why, turn, next, tries, answer, talk, memory, asked, missed>>

\* No rung of structured_call gave a decision, or it resolves to nobody.
ChairStumbles ==
    /\ pc = "chair"
    /\ ~Exhausted
    /\ Reads(Unresolved)
    /\ attempt < 2
    /\ attempt' = attempt + 1
    /\ UNCHANGED <<run, pc, why, turn, next, tries, answer, talk, memory, asked, missed>>

\* Mutation: a chair that cannot decide is asked again.
GivesUpNever ==
    /\ pc = "chair"
    /\ ~Exhausted
    /\ attempt = 2
    /\ attempt' = 0
    /\ UNCHANGED <<run, pc, why, turn, next, tries, answer, talk, memory, asked, missed>>

\* Mutation: a chair that cannot decide ends the meeting.
GivesUpAtOnce ==
    /\ pc = "chair"
    /\ ~Exhausted
    /\ attempt = 2
    /\ EndRun("gaveUp")
    /\ UNCHANGED <<run, turn, next, attempt, tries, answer, talk, store, asked, missed>>

\* Mutation: the fallback's turn is not counted.
GivesUpInPlace ==
    /\ pc = "chair"
    /\ ~Exhausted
    /\ attempt = 2
    /\ \/ /\ \E a \in Unheard : next' = a
          /\ pc' = "lookup"
          /\ attempt' = 0
          /\ UNCHANGED <<why, cache>>
       \/ /\ Unheard = {}
          /\ EndRun("gaveUp")
          /\ UNCHANGED <<next, attempt>>
    /\ UNCHANGED <<run, turn, tries, answer, talk, store, asked, missed>>

\* The third attempt failed too: the turn goes to an attendee the thread has not
\* heard (the first one, in the order the database gave them), and the meeting
\* ends only when there is none.  An unresolvable id counts as a turn even then.
ChairGivesUp ==
    /\ pc = "chair"
    /\ ~Exhausted
    /\ Reads(Unresolved)
    /\ attempt = 2
    /\ \/ \E a \in Unheard : GiveTurn(a) /\ UNCHANGED <<why, cache>>
       \/ /\ Unheard = {}
          /\ EndRun("gaveUp")
          /\ turn' \in {turn, turn + 1}
          /\ UNCHANGED <<next, attempt>>
    /\ UNCHANGED <<run, tries, answer, talk, store, asked, missed>>
-----------------------------------------------------------------------------
(***************************************************************************)
(* The attendee's turn.                                                    *)
(***************************************************************************)
\* The node returns: its utterance is added to the messages and streamed.
Say(u) ==
    /\ pc' = "chair"
    /\ thread' = thread \union {u}
    /\ transcript' = Append(transcript, u)
    /\ answer' = None

\* Mutation: only the runtime's cache is trusted.
LookUpNothing ==
    /\ pc = "lookup"
    /\ pc' = "issue"
    /\ tries' = 0
    /\ UNCHANGED <<run, chair, answer, talk, memory, asked, missed>>

\* A recorded turn is returned as it is.  A lookup that raises counts as a miss.
LookUp ==
    /\ pc = "lookup"
    /\ \/ /\ \E u \in Of(key, store) : Say(u)
          /\ UNCHANGED <<tries, missed>>
       \/ /\ pc' = "issue"
          /\ tries' = 0
          /\ missed' = IF Of(key, store) = {} THEN missed ELSE missed \union {key}
          /\ UNCHANGED <<answer, talk>>
    /\ UNCHANGED <<run, chair, memory, asked>>

\* /v1/turn: the runtime replays what it remembers, or calls the model.
IssueTurn ==
    /\ pc = "issue"
    /\ \/ /\ \E u \in Of(key, cache[next]) : answer' = u
          /\ pc' = "answered"
          /\ UNCHANGED asked
       \/ /\ Of(key, cache[next]) = {}
          /\ answer' = [by |-> next, turn |-> turn,
                        take |-> Cardinality(Of(key, asked)) + 1]
          /\ asked' = asked \union {answer'}
          /\ pc' = "thinking"
    /\ UNCHANGED <<run, chair, tries, talk, memory, missed>>

\* TurnCache.put.  The entry that goes is the least recently used one; which one
\* that is, is left open.
Remember(u) ==
    LET more == cache[u.by] \union {u} IN
    \/ Cardinality(more) <= MaxEntries /\ cache' = [cache EXCEPT ![u.by] = more]
    \/ /\ Cardinality(more) > MaxEntries
       /\ \E old \in cache[u.by] : cache' = [cache EXCEPT ![u.by] = more \ {old}]

\* Mutation: the turn is recorded before anyone has received it.
AnswerRecorded ==
    /\ pc = "thinking"
    /\ pc' = "answered"
    /\ Remember(answer)
    /\ store' = IF Of(key, store) = {} THEN store \union {answer} ELSE store
    /\ UNCHANGED <<run, chair, tries, answer, talk, asked, missed>>

Answer ==
    /\ pc = "thinking"
    /\ pc' = "answered"
    /\ Remember(answer)
    /\ UNCHANGED <<run, chair, tries, answer, talk, store, asked, missed>>

\* Mutation: a turn that failed is recorded as it was heard.
FailureRecorded ==
    /\ pc \in {"issue", "thinking"}
    /\ Say(Failed)
    /\ store' = IF Of(key, store) = {} THEN store \union {Failed} ELSE store
    /\ UNCHANGED <<run, chair, tries, cache, asked, missed>>

\* There is no sandbox, the turn failed inside it, or the stream ended without a
\* result: not something a new pod fixes.
TurnFails ==
    /\ pc \in {"issue", "thinking"}
    /\ Say(Failed)
    /\ UNCHANGED <<run, chair, tries, memory, asked, missed>>

\* Binding or streaming raised, before the result got through: the sandbox is
\* given up, and the turn issued once more to another.
TransportFails ==
    /\ pc \in {"issue", "thinking", "answered"}
    /\ cache' = [cache EXCEPT ![next] = {}]
    /\ \/ /\ tries = 0
          /\ tries' = 1
          /\ pc' = "issue"
          /\ answer' = None
          /\ UNCHANGED talk
       \/ /\ tries = 1
          /\ Say(Failed)
          /\ UNCHANGED tries
    /\ UNCHANGED <<run, chair, store, asked, missed>>

\* A result got through: turn_cache.record inserts it unless its key is there,
\* and a failure to is only logged.
Record ==
    /\ pc = "answered"
    /\ pc' = "recorded"
    /\ \/ store' = IF Of(key, store) = {} THEN store \union {answer} ELSE store
       \/ UNCHANGED store
    /\ UNCHANGED <<run, chair, tries, answer, talk, cache, asked, missed>>

Return ==
    /\ pc = "recorded"
    /\ Say(answer)
    /\ UNCHANGED <<run, chair, tries, memory, asked, missed>>
-----------------------------------------------------------------------------
(***************************************************************************)
(* Failures around the graph.                                              *)
(***************************************************************************)
\* A node raises before its own handlers, or the checkpointer between two nodes:
\* an error event, and the run a failed one.
GraphFails ==
    /\ pc \in {"chair", "lookup"}
    /\ EndRun("error")
    /\ UNCHANGED <<run, turn, next, attempt, tries, answer, talk, store, asked, missed>>

\* The run is cut, its leases kept.  The checkpoint of the last node that
\* returned is written in the background, and may not have been.
Cut ==
    /\ pc \in Active
    /\ pc' = "idle"
    /\ answer' = None
    /\ \/ UNCHANGED thread
       \/ /\ pc = "chair" /\ transcript # <<>>
          /\ thread' = thread \ {transcript[Len(transcript)]}
    /\ UNCHANGED <<run, chair, tries, transcript, memory, asked, missed>>

\* The pod is evicted, killed or swept at the backend's restart.
PodLost(a) ==
    /\ cache[a] # {}
    /\ cache' = [cache EXCEPT ![a] = {}]
    /\ UNCHANGED <<run, pc, chair, tries, answer, talk, store, asked, missed>>
-----------------------------------------------------------------------------
ChairStep ==
    \/ ChairAtLimit \/ ChairFinishes \/ ChairStumbles \/ ChairGivesUp
    \/ \E a \in Attendee : ChairNames(a)

TurnStep ==
    \/ LookUp \/ IssueTurn \/ Answer \/ TurnFails \/ TransportFails
    \/ Record \/ Return

Next ==
    \/ StartRun \/ ChairStep \/ TurnStep \/ GraphFails \/ Cut
    \/ \E a \in Attendee : PodLost(a)

Spec == Init /\ [][Next]_vars

\* Every call a node makes has a timeout: to the model, the runtime and the
\* database.  Nothing makes a run start, be cut, or a pod be lost.
FairSpec == Spec /\ WF_vars(ChairStep) /\ WF_vars(TurnStep)
-----------------------------------------------------------------------------
(***************************************************************************)
(* Properties.                                                             *)
(***************************************************************************)
\* Every variable has its type.
TypeOK ==
    /\ run \in 0 .. MaxRuns
    /\ pc \in Active \union {"idle", "over"}
    /\ why \in Reasons
    /\ turn \in Nat
    /\ next \in Attendee \union {None}
    /\ attempt \in 0 .. 2
    /\ tries \in 0 .. 1
    /\ answer \in Utterance \union {None}
    /\ thread \subseteq Utterance
    /\ transcript \in Seq(Utterance)
    /\ store \subseteq Utterance
    /\ cache \in [Attendee -> SUBSET Utterance]
    /\ asked \subseteq Utterance
    /\ missed \subseteq Nat \X Attendee

\* The transcript of a run has one entry for every turn it took, in order,
\* whether the turn was spoken, replayed or failed: no turn is skipped or heard
\* twice, and the counter the turn keys are made of is that of the turn.
TurnsInOrder ==
    /\ \A i \in DOMAIN transcript : transcript[i].turn = i
    /\ pc = "chair" => Len(transcript) = turn
    /\ pc \in InTurn => Len(transcript) + 1 = turn

\* A run hears no more turns than the meeting's limit.
WithinLimit == Len(transcript) <= TurnLimit

\* A turn that was recorded is never put to the model again, in this run or a
\* later one, unless a lookup of it failed: the promise of the turn store.
RecordedNotReinvoked ==
    [][\A u \in store : Key(u) \in missed \/ Of(Key(u), asked') = Of(Key(u), asked)]_vars

\* What a run's transcript holds for a turn is what the store holds for it: a
\* later run cannot be given another utterance, unless a lookup failed.  A turn
\* heard to fail has no record.
RecordIsWhatWasHeard ==
    \A i \in DOMAIN transcript : \A u \in store :
        Key(u) = Key(transcript[i]) => u = transcript[i] \/ Key(u) \in missed

\* A chair that gives up ends a meeting's first run only when everyone was heard.
EveryoneHeardFirst ==
    run = 1 /\ pc = "over" /\ why = "gaveUp" =>
        \A a \in Attendee : \E i \in DOMAIN transcript : transcript[i].by = a

\* Every run ends, whatever the models answer and however often pods are lost.
RunEnds == pc \in Active ~> pc \notin Active

\* The model is asked for a turn at most once.
SpokenOnce == \A u, v \in asked : Key(u) = Key(v) => u = v

(***************************************************************************)
(* Refinement: the meeting as a reader of its transcripts sees it.         *)
(***************************************************************************)
Kept == INSTANCE Minutes WITH
    held <- pc \in Active,
    reason <- why,
    heard <- transcript,
    voices <- Heard,
    spoken <- asked,
    book <- store,
    lapsed <- missed

\* However runs are cut and pods lost, and whatever the models answer, the
\* transcripts of a meeting, its turn store and its thread together are proper
\* minutes.
RefinesMinutes == Kept!MinutesSpec
=============================================================================
