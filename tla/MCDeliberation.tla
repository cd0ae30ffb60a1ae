--------------------------- MODULE MCDeliberation ---------------------------
(***************************************************************************)
(* Small instances of Deliberation for TLC: a model that gives ids, names  *)
(* one attendee by a part of its name, several by a title, uses a word too *)
(* short or one that fits nobody, or ends the meeting.                     *)
(***************************************************************************)
EXTENDS Deliberation, TLC

WordFor(id, finish, short, hits) == [id |-> id, finish |-> finish, short |-> short, hits |-> hits]

MCWord ==
    {WordFor(a, FALSE, FALSE, {a}) : a \in Attendee}
    \union {WordFor(None, FALSE, FALSE, H) : H \in SUBSET Attendee}
    \union {WordFor(None, FALSE, TRUE, Attendee), WordFor(None, TRUE, FALSE, {})}

\* Attendees are interchangeable.  Not for runs that check liveness.
Symmetry == Permutations(Attendee)

\* split_thought publishes exactly the text that no thought holds, for every
\* utterance of at most six tags and pieces of text.
ASSUME ThoughtsStayPrivate ==
    \A n \in 0..6 : \A s \in [1..n -> {"open", "close", "text"}] :
       {i \in split_thought(s) : s[i] = "text"} = {i \in 1..n : s[i] = "text" /\ ~ Private(s, i)}
=============================================================================
