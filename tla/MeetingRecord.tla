--------------------------- MODULE MeetingRecord ---------------------------
(***************************************************************************)
(* What a meeting's row promises a reader of the API, whatever sockets,    *)
(* tasks and restarts lie behind it: the stages of its life, and whether   *)
(* it holds a transcript.  Meetings implements this specification.         *)
(***************************************************************************)
CONSTANT Meeting

VARIABLES stage,       \* stage[m]: where m is in its life
          transcript   \* the meetings whose row holds a transcript

recordVars == <<stage, transcript>>

Stage == {"none", "asked", "draft", "live", "over", "gone"}

RecordInit ==
    /\ stage = [m \in Meeting |-> "none"]
    /\ transcript = {}

Move(m, from, to) == stage[m] \in from /\ stage' = [stage EXCEPT ![m] = to]

\* A meeting is only asked for while no meeting is live.
Ask(m) ==
    /\ \A n \in Meeting : stage[n] # "live"
    /\ Move(m, {"none"}, "asked")
    /\ UNCHANGED transcript

\* It is created later, and one may be live by then.
Create(m) ==
    /\ Move(m, {"asked"}, "draft")
    /\ UNCHANGED transcript

\* Any existing meeting can be started, a finished one included.
Start(m) ==
    /\ Move(m, {"draft", "live", "over"}, "live")
    /\ UNCHANGED transcript

\* A run ends and leaves its transcript: the only way a row gets one.  A meeting
\* that another run has concluded, and that was started again before this one
\* wrote, stays live.
Conclude(m) ==
    /\ stage[m] \in {"live", "over"}
    /\ stage' = [stage EXCEPT ![m] = "over"] \/ UNCHANGED stage
    /\ transcript' = transcript \union {m}

\* A meeting is stopped or fails: it gains no transcript, and may lose the one
\* it had.  A draft can be stopped too.
Abandon(m) ==
    /\ Move(m, {"draft", "live", "over"}, "over")
    /\ transcript' \in {transcript, transcript \ {m}}

\* The purge of a stop that found the meeting stopped already comes after it was
\* started again.
PurgeLate(m) ==
    /\ transcript' = transcript \ {m}
    /\ UNCHANGED stage

\* A starting process abandons every live meeting, and what was asked for, at
\* once; one that cannot abandon the meetings forgets the requests.
AbandonAll ==
    /\ stage' = [m \in Meeting |->
                   IF stage[m] = "live" THEN "over"
                   ELSE IF stage[m] = "asked" THEN "none" ELSE stage[m]]
    /\ UNCHANGED transcript

Forget ==
    /\ stage' = [m \in Meeting |-> IF stage[m] = "asked" THEN "none" ELSE stage[m]]
    /\ UNCHANGED transcript

Delete(m) ==
    /\ Move(m, {"draft", "live", "over"}, "gone")
    /\ transcript' = transcript \ {m}

RecordNext ==
    \/ \E m \in Meeting : \/ Ask(m) \/ Create(m) \/ Start(m) \/ Conclude(m)
                          \/ Abandon(m) \/ PurgeLate(m) \/ Delete(m)
    \/ AbandonAll \/ Forget

RecordSpec == RecordInit /\ [][RecordNext]_recordVars
=============================================================================
