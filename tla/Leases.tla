------------------------------- MODULE Leases -------------------------------
(***************************************************************************)
(* What the sandbox manager promises the turns of a meeting, whatever the  *)
(* cluster does with claims and pods: one sandbox per attendee, used by    *)
(* nobody else and never handed out again, none that was there before, and *)
(* a turn that keeps the sandbox it was given until it gives it up itself. *)
(* Sandboxes implements this specification when runs take turns.           *)
(***************************************************************************)
CONSTANTS Agent, Claim, None

VARIABLES leased,   \* leased[a]: the sandbox of a, or None
          ready,    \* ready[a]: it needs no binding
          ending,   \* sandboxes given up and not yet gone
          standing, \* sandboxes there are, the leased and the stray
          serving   \* the attendee whose turn is in its sandbox, with that sandbox

leaseVars == <<leased, ready, ending, standing, serving>>

LeasesInit ==
    /\ leased = [a \in Agent |-> None]
    /\ ready = [a \in Agent |-> FALSE]
    /\ ending = {} /\ standing = {}
    /\ serving = {}

\* An attendee without a sandbox gets one made for it: nobody has it or gave it up,
\* and it is not one that a failed call or an earlier process left.  It is not bound
\* yet, and the turn goes there.
Grant(a, c) ==
    /\ leased[a] = None
    /\ \A b \in Agent : leased[b] # c
    /\ c \notin ending \union standing
    /\ standing' = standing \union {c}
    /\ leased' = [leased EXCEPT ![a] = c]
    /\ ready' = [ready EXCEPT ![a] = FALSE]
    /\ serving = {} /\ serving' = {<<a, c>>}
    /\ UNCHANGED ending

\* An attendee with a sandbox has its turn there.
Serve(a) ==
    /\ leased[a] # None
    /\ serving = {} /\ serving' = {<<a, leased[a]>>}
    /\ UNCHANGED <<leased, ready, ending, standing>>

MakeReady(a) ==
    /\ serving = {<<a, leased[a]>>}
    /\ ready' = [ready EXCEPT ![a] = TRUE]
    /\ UNCHANGED <<leased, ending, standing, serving>>

Rest ==
    /\ serving' = {}
    /\ UNCHANGED <<leased, ready, ending, standing>>

\* Attendees give their sandboxes up: the one whose turn it is, or everybody
\* between two turns.
GiveUp(A) ==
    /\ \A use \in serving : A = {use[1]}
    /\ leased' = [a \in Agent |-> IF a \in A THEN None ELSE leased[a]]
    /\ ready' = [a \in Agent |-> IF a \in A THEN FALSE ELSE ready[a]]
    /\ ending' = ending \union ({leased[a] : a \in A} \ {None})
    /\ serving' = {}
    /\ UNCHANGED standing

\* A deletion ends, and may have failed.
Ended(c) ==
    /\ ending' = ending \ {c}
    /\ standing' \in {standing, standing \ {c}}
    /\ UNCHANGED <<leased, ready, serving>>

\* A sandbox is made that nobody waits for.
Stray(c) ==
    /\ c \notin standing
    /\ standing' = standing \union {c}
    /\ UNCHANGED <<leased, ready, ending, serving>>

\* A sandbox goes by itself, leased or not.
Vanish(c) ==
    /\ standing' = standing \ {c}
    /\ UNCHANGED <<leased, ready, ending, serving>>

\* The process dies and remembers nothing; the sandboxes stay.
Forget ==
    /\ leased' = [a \in Agent |-> None]
    /\ ready' = [a \in Agent |-> FALSE]
    /\ ending' = {}
    /\ standing \subseteq standing'
    /\ serving' = {}

LeasesNext ==
    \/ \E a \in Agent : Serve(a) \/ MakeReady(a) \/ \E c \in Claim : Grant(a, c)
    \/ \E A \in SUBSET Agent : GiveUp(A)
    \/ \E c \in Claim : Ended(c) \/ Stray(c) \/ Vanish(c)
    \/ Rest \/ Forget

LeasesSpec == LeasesInit /\ [][LeasesNext]_leaseVars
=============================================================================
