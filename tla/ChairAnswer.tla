---------------------------- MODULE ChairAnswer ----------------------------
(***************************************************************************)
(* How a model's reply is read: the ladder of calls the chair makes for    *)
(* one decision (orchestration/llm_call.py), the attendee a name stands    *)
(* for, and what of an attendee's utterance is public (recovery.py, which  *)
(* the persona runtime has a copy of).                                     *)
(*                                                                         *)
(* A word is what a model gave as next_speaker, reduced to what the code   *)
(* finds in it: whether it is an attendee's id, spells FINISH, is too      *)
(* short to be looked for, and the attendees whose id, name or title       *)
(* contains it.  None stands for a missing or blank one.                   *)
(***************************************************************************)
EXTENDS Naturals, Sequences

CONSTANT None

FINISH == "FINISH"

\* At least MIN_FUZZY_MATCH_LEN characters, found in one attendee only.
Fuzzy(w) == {a \in w.hits : ~ w.short /\ w.hits = {a}}

\* The attendee a word stands for; FINISH if there is not exactly one.
recover_speaker_id(w) ==
    IF w = None THEN FINISH
    ELSE IF w.id # None THEN w.id
    ELSE IF w.finish \/ Fuzzy(w) = {} THEN FINISH
    ELSE CHOOSE a \in w.hits : TRUE

\* What the chair makes of a word: an attendee, the end of the meeting, or
\* nothing, and then it is asked again.
Unresolved == "unresolved"
Decision(w) ==
    IF w = None THEN Unresolved
    ELSE IF recover_speaker_id(w) = FINISH /\ ~ w.finish THEN Unresolved
    ELSE recover_speaker_id(w)

-----------------------------------------------------------------------------
(* A reply: refused by the provider or not, cut off at the cap or not, and *)
(* the words found where they are looked for: in what the schema parsed,   *)
(* in the arguments of the tool calls, and in the four encodings a call    *)
(* may have been written out in, in the order they are tried (the first    *)
(* 300 characters of the reply are searched for those).                    *)

First(words) ==
    IF \E i \in DOMAIN words : words[i] # None
    THEN words[CHOOSE i \in DOMAIN words :
                  words[i] # None /\ \A j \in 1..(i - 1) : words[j] = None]
    ELSE None

\* The tool calls, then the text: bare JSON, fenced, arg_key and function markup.
salvage_decision(reply) == First(reply.calls \o reply.text)

\* run: the word a rung of the ladder gives, if it gives one.
Usable(reply) ==
    IF reply.refused THEN None
    ELSE IF reply.parsed # None THEN reply.parsed
    ELSE salvage_decision(reply)

Truncated(reply) == ~ reply.refused /\ reply.cut

\* Tools, tools with a larger budget if the first reply was cut, plain text.
structured_call(tools, retry, text) ==
    First(<<Usable(tools), IF Truncated(tools) THEN Usable(retry) ELSE None, Usable(text)>>)

-----------------------------------------------------------------------------
(* An utterance is a sequence of opening and closing tags and of text.     *)

\* The first closing tag behind an opening one; 0 if there is none.
ClosedAt(s, o) ==
    LET C == {c \in (o + 1)..Len(s) : s[c] = "close"}
    IN  IF C = {} THEN 0 ELSE CHOOSE c \in C : \A b \in C : c <= b

\* The positions the first pass takes out, read from the left: an opening tag
\* that is closed somewhere, up to the closing tag.
TakenOut(s) ==
    LET upto[i \in 0..Len(s)] ==       \* the last position taken out by i
          IF i = 0 THEN 0
          ELSE IF i <= upto[i - 1] \/ s[i] # "open" THEN upto[i - 1]
          ELSE IF ClosedAt(s, i) = 0 THEN upto[i - 1] ELSE ClosedAt(s, i)
    IN  {i \in DOMAIN s : i <= upto[i]}

\* The second pass drops everything from the first opening tag that is left.
split_thought(s) ==
    LET left == DOMAIN s \ TakenOut(s)
    IN  {i \in left : s[i] # "open" /\ \A o \in left : o < i => s[o] # "open"}

\* The reference: text is public unless the last tag before it is opening.
Private(s, i) == \E o \in 1..(i - 1) : s[o] = "open" /\ \A c \in (o + 1)..(i - 1) : s[c] # "close"
=============================================================================
