----------------------------- MODULE CodeCalls -----------------------------
(***************************************************************************)
(* What the code-execution tool promises the persona that calls it, and    *)
(* the operator who grants it, whatever becomes of claims, sandboxes and   *)
(* connections: a call's code is started at most once, and for the granted *)
(* only; a result is its own job's and names what was stored; and an       *)
(* answer given stands, even if the job goes on.  ExecSandboxes implements *)
(* this specification.                                                     *)
(***************************************************************************)
EXTENDS Naturals

CONSTANTS Call, Caller, Granted, MaxFiles, None

VARIABLES
    stage,    \* stage[c]: "idle", "open" or "closed"
    who,      \* who[c]: the caller, or None
    spent,    \* calls that will start no job any more
    running,  \* calls whose job runs
    answer,   \* answer[c]: what the tool is to answer
    produced, \* produced[c]: the files of the result
    stored    \* stored[c]: those stored so far

callVars == <<stage, who, spent, running, answer, produced, stored>>

CallsInit ==
    /\ stage = [c \in Call |-> "idle"]
    /\ who = [c \in Call |-> None]
    /\ spent = {} /\ running = {}
    /\ answer = [c \in Call |-> "none"]
    /\ produced = [c \in Call |-> 0] /\ stored = [c \in Call |-> 0]

Ask(c, a) ==
    /\ stage[c] = "idle"
    /\ stage' = [stage EXCEPT ![c] = "open"]
    /\ who' = [who EXCEPT ![c] = a]
    /\ UNCHANGED <<spent, running, answer, produced, stored>>

\* Once in a call, and never after it has failed or answered.
Run(c) ==
    /\ stage[c] = "open" /\ c \notin spent
    /\ who[c] \in Granted
    /\ spent' = spent \union {c}
    /\ running' = running \union {c}
    /\ UNCHANGED <<stage, who, answer, produced, stored>>

\* The job's own result is the only one a call can get.
Result(c, ok, f) ==
    /\ stage[c] = "open" /\ c \in running /\ answer[c] = "none"
    /\ ok \/ f = 0
    /\ running' = running \ {c}
    /\ answer' = [answer EXCEPT ![c] = IF ok THEN "ok" ELSE "failed"]
    /\ produced' = [produced EXCEPT ![c] = f]
    /\ UNCHANGED <<stage, who, spent, stored>>

\* Jobs end and nobody hears of it.
Vanish == running' \subseteq running /\ UNCHANGED <<stage, who, spent, answer, produced, stored>>

Store(c) ==
    /\ stage[c] = "open" /\ answer[c] = "ok" /\ stored[c] < produced[c]
    /\ stored' = [stored EXCEPT ![c] = stored[c] + 1]
    /\ UNCHANGED <<stage, who, spent, running, answer, produced>>

\* A call fails before it has a result, or over storing it; its job may go on.
Fail(c, why) ==
    /\ stage[c] = "open"
    /\ \/ answer[c] = "none" /\ why \in {"denied", "unavailable"}
       \/ answer[c] = "ok" /\ why = "raised" /\ stored[c] < produced[c]
    /\ answer' = [answer EXCEPT ![c] = why]
    /\ stage' \in {stage, [stage EXCEPT ![c] = "closed"]}
    /\ spent' = spent \union {c}
    /\ running' \in {running, running \ {c}}
    /\ UNCHANGED <<who, produced, stored>>

\* Calls are cut, whatever they were about to answer; their jobs go on.
Cut(C) ==
    /\ \A c \in C : stage[c] = "open"
    /\ answer' = [c \in Call |-> IF c \in C THEN "cut" ELSE answer[c]]
    /\ stage' \in {stage, [c \in Call |-> IF c \in C THEN "closed" ELSE stage[c]]}
    /\ spent' = spent \union C
    /\ UNCHANGED <<who, running, produced, stored>>

\* The tool answers; without an error only if all is stored.
Close(c) ==
    /\ stage[c] = "open" /\ c \in spent /\ answer[c] # "none"
    /\ answer[c] = "ok" => stored[c] = produced[c]
    /\ stage' = [stage EXCEPT ![c] = "closed"]
    /\ UNCHANGED <<who, spent, running, answer, produced, stored>>

CallsNext ==
    \/ \E c \in Call :
         \/ \E a \in Caller : Ask(c, a)
         \/ Run(c) \/ Store(c) \/ Close(c)
         \/ \E ok \in BOOLEAN, f \in 0..MaxFiles : Result(c, ok, f)
         \/ \E why \in {"denied", "unavailable", "raised"} : Fail(c, why)
    \/ \E C \in SUBSET Call : Cut(C)
    \/ Vanish

CallsSpec == CallsInit /\ [][CallsNext]_callVars
=============================================================================
