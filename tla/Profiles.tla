------------------------------ MODULE Profiles ------------------------------
(***************************************************************************)
(* Capability profiles (orchestration/profiles.py): the tools a persona    *)
(* asks for are resolved to the first profile that covers them; the        *)
(* profile selects the template, account and policies of its sandbox.  The *)
(* runtime intersects what it is granted with the capability file that     *)
(* sandbox mounts (runtime/capabilities.py).  Tools are names; there is no *)
(* state.                                                                  *)
(***************************************************************************)
EXTENDS Naturals

PYTHON == "run_python_analysis"
METRICS == "query_business_metrics"
POLICY == "check_policy_compliance"
CORPUS == "search_corpus"

BASELINE_TOOLS ==
    {"retrieve_documents", "draft_artifact", "read_artifact", "record_action_item"}

ALL_TOOLS == BASELINE_TOOLS \union {METRICS, PYTHON, POLICY, CORPUS}

Profile(name, extra, code, titles) ==
    [name |-> name, tools |-> BASELINE_TOOLS \union extra, can_execute_code |-> code,
     seed_titles |-> titles]

BASELINE == Profile("baseline", {}, FALSE, {})

\* From least to most capable: the order in which resolve tries them.
PROFILES ==
    [i \in 1..6 |->
       CASE i = 1 -> BASELINE
         [] i = 2 -> Profile("counsel", {POLICY}, FALSE, {"GC", "Quality"})
         [] i = 3 -> Profile("strategist", {CORPUS}, FALSE,
                             {"Chief Architect", "Solution Architect"})
         [] i = 4 -> Profile("analyst", {METRICS}, FALSE, {"VP", "Inspector"})
         [] i = 5 -> Profile("quant", {METRICS, PYTHON}, TRUE, {"FD", "Engineer"})
         [] i = 6 -> Profile("chief", {METRICS, POLICY, CORPUS}, FALSE, {"CEO"})]

First(S) == CHOOSE i \in S : \A j \in S : i <= j

\* ProfileDriftError.
Drift == [name |-> "drift", tools |-> {}, can_execute_code |-> FALSE, seed_titles |-> {}]

Covering(wanted) == {i \in 1..6 : wanted \subseteq PROFILES[i].tools}

\* Nothing asked for is the least profile, never the most; a tool nobody knows
\* and a combination nobody provides are refused.
resolve(requested) ==
    LET wanted == requested \ {""} IN
    IF wanted = {} THEN BASELINE
    ELSE IF ~ wanted \subseteq ALL_TOOLS \/ Covering(wanted) = {} THEN Drift
    ELSE PROFILES[First(Covering(wanted))]

Titled(title) == {i \in 1..6 : title \in PROFILES[i].seed_titles}

\* The profile a seeded persona gets; its tools become the persona's
\* default_tools, which resolve then reads.
for_persona(title) == IF Titled(title) = {} THEN BASELINE ELSE PROFILES[First(Titled(title))]

\* What the editor shows for a selection, and the audit matrix for an attendee.
GrantedTools(requested) == resolve(requested).tools

\* resolve_grant: a sandbox activates no tool its own capability file lacks;
\* without a file, only retrieval.
NoFile == {"retrieve_documents"}
resolve_grant(requested, allowed) ==
    [active |-> requested \intersect allowed, refused |-> requested \ allowed]

KNOWN_TOOLS == ALL_TOOLS

\* build_tools: a tool this image does not know is skipped, not an error.
build_tools(names) == names \intersect KNOWN_TOOLS
=============================================================================
