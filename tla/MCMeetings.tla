----------------------------- MODULE MCMeetings -----------------------------
(***************************************************************************)
(* Small instances of Meetings for TLC.                                    *)
(***************************************************************************)
EXTENDS Meetings, TLC

\* Rows, connections and tasks are interchangeable for the invariants.
Symmetry ==
    Permutations(Meeting) \union Permutations(Socket) \union Permutations(Task)
=============================================================================
