----------------------------- MODULE RunsInTurn -----------------------------
(***************************************************************************)
(* What the modules about one meeting ask of whoever executes it, and all  *)
(* they ask: a run of a meeting begins only while no other run of that     *)
(* meeting is under way, and does not come back once it is over.  Meetings *)
(* gives this with one tab per meeting; Sandboxes!OneRunSpec is Sandboxes  *)
(* with it.                                                                *)
(***************************************************************************)
CONSTANTS Run, Meeting, None

VARIABLES phase,   \* phase[r]: "idle", "active" or "over"
          meeting  \* the meeting r is to execute, or None

turnVars == <<phase, meeting>>

TurnsInit ==
    /\ phase = [r \in Run |-> "idle"]
    /\ meeting \in [Run -> Meeting \union {None}]

\* A run that has not begun is given its meeting.
Assign(r, m) ==
    /\ phase[r] = "idle"
    /\ meeting' = [meeting EXCEPT ![r] = m]
    /\ UNCHANGED phase

Begin(r) ==
    /\ phase[r] = "idle"
    /\ \A q \in Run : phase[q] = "active" => meeting[q] # meeting[r]
    /\ phase' = [phase EXCEPT ![r] = "active"]
    /\ UNCHANGED meeting

\* Runs end, begun or not, several at once when the process dies.
End(R) ==
    /\ phase' = [r \in Run |-> IF r \in R THEN "over" ELSE phase[r]]
    /\ UNCHANGED meeting

TurnsNext ==
    \/ \E r \in Run : Begin(r) \/ \E m \in Meeting : Assign(r, m)
    \/ \E R \in SUBSET Run : End(R)

TurnsSpec == TurnsInit /\ [][TurnsNext]_turnVars
=============================================================================
