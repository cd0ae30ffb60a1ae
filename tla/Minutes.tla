------------------------------ MODULE Minutes ------------------------------
(***************************************************************************)
(* What a meeting's minutes promise whoever reads them, run after run,     *)
(* whatever fails while it is held: turns in order and within the limit,   *)
(* nothing that was not said, what was recorded repeated and not asked for *)
(* again, and nobody left out by a chair that gives up.  Deliberation      *)
(* implements this specification.                                          *)
(***************************************************************************)
EXTENDS Naturals, Sequences

CONSTANTS Attendee, TurnLimit, None

VARIABLES
    held,     \* a run is under way
    reason,   \* what ended the last run that ended by itself
    heard,    \* the utterances of the current or last run
    voices,   \* the attendees remembered to have been heard, in any run
    spoken,   \* what attendees came up with, heard or not
    book,     \* what is recorded for later runs
    lapsed    \* turns whose record could once not be read

minutesVars == <<held, reason, heard, voices, spoken, book, lapsed>>

Turn(u) == <<u.turn, u.by>>

\* u is of the turn that is next to be heard.
Due(u) == u.turn = Len(heard) + 1 /\ u.turn <= TurnLimit

\* What is recorded of u's turn is u, as far as it can be read.
AsRecorded(u) == \A v \in book : Turn(v) = Turn(u) => v = u \/ Turn(u) \in lapsed

\* An attendee that says nothing.
Silence == {[by |-> a, turn |-> Len(heard) + 1, take |-> 0] : a \in Attendee}

MinutesInit ==
    /\ held = FALSE
    /\ reason = None
    /\ heard = <<>>
    /\ voices = {} /\ spoken = {} /\ book = {} /\ lapsed = {}

Open ==
    /\ ~ held /\ held' = TRUE
    /\ reason' = None
    /\ heard' = <<>>
    /\ UNCHANGED <<voices, spoken, book, lapsed>>

\* The record of a turn that is due cannot be read.
Lapse(u) ==
    /\ held /\ Due(u) /\ u \in book
    /\ lapsed' = lapsed \union {Turn(u)}
    /\ UNCHANGED <<held, reason, heard, voices, spoken, book>>

\* An attendee comes up with something for a turn that has no record to repeat.
Speak(u) ==
    /\ held /\ Due(u) /\ u.by \in Attendee /\ u.take # 0
    /\ \A v \in book : Turn(v) = Turn(u) => Turn(u) \in lapsed
    /\ spoken' = spoken \union {u}
    /\ UNCHANGED <<held, reason, heard, voices, book, lapsed>>

\* A turn is recorded once, and only what somebody said.
Enter(u) ==
    /\ held /\ Due(u) /\ u \in spoken
    /\ \A v \in book : Turn(v) # Turn(u)
    /\ book' = book \union {u}
    /\ UNCHANGED <<held, reason, heard, voices, spoken, lapsed>>

Hear(u) ==
    /\ held /\ Due(u) /\ AsRecorded(u)
    /\ heard' = Append(heard, u)
    /\ voices' = voices \union {u.by}
    /\ UNCHANGED <<held, reason, spoken, book, lapsed>>

Close(why) ==
    /\ held /\ held' = FALSE
    /\ why = "limit" => Len(heard) = TurnLimit
    /\ why = "gaveUp" => voices = Attendee
    /\ reason' = why
    /\ UNCHANGED <<heard, voices, spoken, book, lapsed>>

\* A run is cut; whoever spoke last may not be remembered.
BreakOff ==
    /\ held /\ held' = FALSE
    /\ \/ UNCHANGED voices
       \/ heard # <<>> /\ voices' = voices \ {heard[Len(heard)].by}
    /\ UNCHANGED <<reason, heard, spoken, book, lapsed>>

MinutesNext ==
    \/ Open \/ BreakOff
    \/ \E why \in {"limit", "finish", "gaveUp", "error"} : Close(why)
    \/ \E u \in spoken' : Speak(u)
    \/ \E u \in book : Lapse(u)
    \/ \E u \in spoken : Enter(u)
    \/ \E u \in spoken \union Silence : Hear(u)

MinutesSpec == MinutesInit /\ [][MinutesNext]_minutesVars
=============================================================================
