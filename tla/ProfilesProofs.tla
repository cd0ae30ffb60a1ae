--------------------------- MODULE ProfilesProofs ---------------------------
(***************************************************************************)
(* Theorems about profile resolution, for any request.                     *)
(***************************************************************************)
EXTENDS Profiles, TLAPS

\* The least member of a set of profile positions exists and is First.
LEMMA FirstIsLeast ==
    ASSUME NEW S \in SUBSET (1..6), S # {}
    PROVE  First(S) \in S /\ \A j \in S : First(S) <= j
<1>1. \E i \in S : \A j \in S : i <= j
  <2>1. CASE 1 \in S
    BY <2>1, SMT
  <2>2. CASE 1 \notin S /\ 2 \in S
    BY <2>2, SMT
  <2>3. CASE 1 \notin S /\ 2 \notin S /\ 3 \in S
    BY <2>3, SMT
  <2>4. CASE 1 \notin S /\ 2 \notin S /\ 3 \notin S /\ 4 \in S
    BY <2>4, SMT
  <2>5. CASE 1 \notin S /\ 2 \notin S /\ 3 \notin S /\ 4 \notin S
    <3>1. \A i \in S : i = 5 \/ i = 6
      BY <2>5, SMT
    <3>2. CASE 5 \in S
      BY <3>1, <3>2, SMT
    <3>3. CASE 5 \notin S
      <4>1. \A i \in S : i = 6
        BY <3>1, <3>3
      <4>2. PICK s \in S : TRUE
        OBVIOUS
      <4> QED BY <4>1, <4>2, SMT
    <3> QED BY <3>2, <3>3
  <2> QED BY <2>1, <2>2, <2>3, <2>4, <2>5
<1> QED BY <1>1 DEF First

\* The six profiles, written out.
LEMMA Strategist == \E titles : PROFILES[3] = Profile("strategist", {CORPUS}, FALSE, titles)
<1>1. PROFILES[3] = Profile("strategist", {CORPUS}, FALSE,
                            {"Chief Architect", "Solution Architect"})
  BY SMT DEF PROFILES
<1> QED BY <1>1

LEMMA ProfileTools ==
    /\ PROFILES[1].tools = BASELINE_TOOLS
    /\ PROFILES[2].tools = BASELINE_TOOLS \union {POLICY}
    /\ PROFILES[3].tools = BASELINE_TOOLS \union {CORPUS}
    /\ PROFILES[4].tools = BASELINE_TOOLS \union {METRICS}
    /\ PROFILES[5].tools = BASELINE_TOOLS \union {METRICS, PYTHON}
    /\ PROFILES[6].tools = BASELINE_TOOLS \union {METRICS, POLICY, CORPUS}
<1>1. PROFILES[1].tools = BASELINE_TOOLS
  BY SMT DEF PROFILES, Profile, BASELINE
<1>2. PROFILES[2].tools = BASELINE_TOOLS \union {POLICY}
  BY SMT DEF PROFILES, Profile
<1>3. PROFILES[3].tools = BASELINE_TOOLS \union {CORPUS}
  BY Strategist DEF Profile
<1>4. PROFILES[4].tools = BASELINE_TOOLS \union {METRICS}
  BY SMT DEF PROFILES, Profile
<1>5. PROFILES[5].tools = BASELINE_TOOLS \union {METRICS, PYTHON}
  BY SMT DEF PROFILES, Profile
<1>6. PROFILES[6].tools = BASELINE_TOOLS \union {METRICS, POLICY, CORPUS}
  BY SMT DEF PROFILES, Profile
<1> QED BY <1>1, <1>2, <1>3, <1>4, <1>5, <1>6

LEMMA ProfileFlags ==
    \A i \in 1..6 : /\ PROFILES[i].can_execute_code => i = 5
                    /\ PROFILES[i].name # "drift"
<1>1. ~ PROFILES[1].can_execute_code /\ PROFILES[1].name = "baseline"
  BY SMT DEF PROFILES, Profile, BASELINE
<1>2. ~ PROFILES[2].can_execute_code /\ PROFILES[2].name = "counsel"
  BY SMT DEF PROFILES, Profile
<1>3. ~ PROFILES[3].can_execute_code /\ PROFILES[3].name = "strategist"
  BY Strategist DEF Profile
<1>4. ~ PROFILES[4].can_execute_code /\ PROFILES[4].name = "analyst"
  BY SMT DEF PROFILES, Profile
<1>5. PROFILES[5].name = "quant"
  BY SMT DEF PROFILES, Profile
<1>6. ~ PROFILES[6].can_execute_code /\ PROFILES[6].name = "chief"
  BY SMT DEF PROFILES, Profile
<1> SUFFICES ASSUME NEW i \in 1..6
             PROVE  /\ PROFILES[i].can_execute_code => i = 5
                    /\ PROFILES[i].name # "drift"
  OBVIOUS
<1>7. i = 1 \/ i = 2 \/ i = 3 \/ i = 4 \/ i = 5 \/ i = 6
  BY SMT
<1> QED BY <1>1, <1>2, <1>3, <1>4, <1>5, <1>6, <1>7

\* What the tools of the catalogue are: eight names, no two the same.
LEMMA ToolNames ==
    /\ METRICS # PYTHON /\ POLICY # PYTHON /\ CORPUS # PYTHON
    /\ METRICS # POLICY /\ METRICS # CORPUS /\ POLICY # CORPUS
    /\ {METRICS, PYTHON, POLICY, CORPUS} \intersect BASELINE_TOOLS = {}
    /\ "" \notin ALL_TOOLS
    /\ BASELINE_TOOLS # {}
BY DEF METRICS, PYTHON, POLICY, CORPUS, BASELINE_TOOLS, ALL_TOOLS

LEMMA ToolsKnown ==
    \A i \in 1..6 : PROFILES[i].tools \subseteq ALL_TOOLS /\ PROFILES[i].tools # {}
<1> SUFFICES ASSUME NEW i \in 1..6
             PROVE  PROFILES[i].tools \subseteq ALL_TOOLS /\ PROFILES[i].tools # {}
  OBVIOUS
<1>1. i = 1 \/ i = 2 \/ i = 3 \/ i = 4 \/ i = 5 \/ i = 6
  BY SMT
<1>2. PROFILES[i].tools \subseteq ALL_TOOLS
  BY <1>1, ProfileTools DEF ALL_TOOLS
<1>3. BASELINE_TOOLS \subseteq PROFILES[i].tools
  BY <1>1, ProfileTools
<1> QED BY <1>2, <1>3, ToolNames

\* resolve(): a request that is not refused is covered by the profile it gets.
THEOREM ResolveCovers ==
    ASSUME NEW requested, resolve(requested) # Drift
    PROVE  requested \ {""} \subseteq resolve(requested).tools
<1> DEFINE wanted == requested \ {""}
<1>1. CASE wanted = {}
  BY <1>1
<1>2. CASE wanted # {}
  <2>1. Covering(wanted) # {} /\ resolve(requested) = PROFILES[First(Covering(wanted))]
    BY <1>2 DEF resolve
  <2>2. Covering(wanted) \in SUBSET (1..6)
    BY DEF Covering
  <2>3. First(Covering(wanted)) \in Covering(wanted)
    BY <2>1, <2>2, FirstIsLeast
  <2> QED BY <2>1, <2>3 DEF Covering
<1> QED BY <1>1, <1>2

\* resolve(): "smallest profile covering the requested tools" -- whatever
\* profile covers a non-empty request, the answer comes no later in the order.
THEOREM ResolveLeast ==
    ASSUME NEW requested, requested \ {""} # {}, resolve(requested) # Drift,
           NEW p \in 1..6, requested \ {""} \subseteq PROFILES[p].tools
    PROVE  \E i \in 1..6 : i <= p /\ resolve(requested) = PROFILES[i]
<1> DEFINE wanted == requested \ {""}
<1>1. Covering(wanted) \in SUBSET (1..6) /\ p \in Covering(wanted)
  BY DEF Covering
<1>2. resolve(requested) = PROFILES[First(Covering(wanted))]
  BY DEF resolve
<1>3. First(Covering(wanted)) \in 1..6 /\ First(Covering(wanted)) <= p
  BY <1>1, FirstIsLeast
<1> QED BY <1>2, <1>3

\* resolve(): a request is refused exactly when no profile covers it.
THEOREM DriftOnlyIfUncovered ==
    ASSUME NEW requested, NEW p \in 1..6, requested \ {""} \subseteq PROFILES[p].tools
    PROVE  resolve(requested) # Drift
<1> DEFINE wanted == requested \ {""}
<1>1. \A i \in 1..6 : PROFILES[i].tools \subseteq ALL_TOOLS /\ PROFILES[i].name # "drift"
  BY ToolsKnown, ProfileFlags
<1>2. CASE wanted = {}
  BY <1>2 DEF resolve, BASELINE, Profile, Drift
<1>3. CASE wanted # {}
  <2>1. wanted \subseteq ALL_TOOLS
    BY <1>1
  <2>2. p \in Covering(wanted) /\ Covering(wanted) \in SUBSET (1..6)
    BY DEF Covering
  <2>3. resolve(requested) = PROFILES[First(Covering(wanted))]
    BY <1>3, <2>1, <2>2 DEF resolve
  <2>4. First(Covering(wanted)) \in 1..6
    BY <2>2, FirstIsLeast
  <2>5. PROFILES[First(Covering(wanted))].name # "drift"
    BY <1>1, <2>4
  <2>6. Drift.name = "drift"
    BY DEF Drift
  <2> QED BY <2>3, <2>5, <2>6
<1> QED BY <1>2, <1>3

\* One profile has the interpreter.
LEMMA InterpreterProfile ==
    ASSUME NEW j \in 1..6, PYTHON \in PROFILES[j].tools
    PROVE  j = 5
<1>1. j = 1 \/ j = 2 \/ j = 3 \/ j = 4 \/ j = 5 \/ j = 6
  BY SMT
<1>2. PYTHON \notin BASELINE_TOOLS /\ PYTHON \notin {POLICY, CORPUS, METRICS}
  BY ToolNames
<1>3. /\ PYTHON \notin PROFILES[1].tools
      /\ PYTHON \notin PROFILES[2].tools
      /\ PYTHON \notin PROFILES[3].tools
  BY <1>2, ProfileTools
<1>4. PYTHON \notin PROFILES[4].tools /\ PYTHON \notin PROFILES[6].tools
  BY <1>2, ProfileTools
<1> QED BY <1>1, <1>3, <1>4

\* A grant of the interpreter comes from a profile that may execute code.
LEMMA OfferedCode ==
    ASSUME NEW requested, PYTHON \in resolve(requested).tools
    PROVE  resolve(requested).can_execute_code
<1>1. PROFILES[5].can_execute_code
  BY SMT DEF PROFILES, Profile
<1>2. PYTHON \notin Drift.tools /\ PYTHON \notin BASELINE.tools
  BY ToolNames DEF Drift, BASELINE, Profile
<1>3. PICK i \in 1..6 : resolve(requested) = PROFILES[i]
  <2>1. Covering(requested \ {""}) \in SUBSET (1..6)
    BY DEF Covering
  <2> QED BY <1>2, <2>1, FirstIsLeast DEF resolve
<1>4. PYTHON \in PROFILES[i].tools
  BY <1>3
<1>5. i = 5
  BY <1>4, InterpreterProfile
<1> QED BY <1>1, <1>3, <1>5

\* "A persona that needs only document retrieval never lands in a profile that
\* can execute code": only a request that names the interpreter does.
THEOREM CodeOnlyOnRequest ==
    ASSUME NEW requested, resolve(requested).can_execute_code
    PROVE  PYTHON \in requested
<1> DEFINE wanted == requested \ {""}
<1> SUFFICES ASSUME PYTHON \notin requested PROVE FALSE
  OBVIOUS
<1>1. wanted # {} /\ wanted \subseteq ALL_TOOLS /\ Covering(wanted) # {}
      /\ resolve(requested) = PROFILES[First(Covering(wanted))]
  BY DEF resolve, BASELINE, Profile, Drift
<1>2. Covering(wanted) \in SUBSET (1..6)
  BY DEF Covering
<1>3. First(Covering(wanted)) \in Covering(wanted)
      /\ \A j \in Covering(wanted) : First(Covering(wanted)) <= j
  BY <1>1, <1>2, FirstIsLeast
<1>4. First(Covering(wanted)) = 5
  BY <1>1, <1>2, <1>3, ProfileFlags
<1>5. wanted \subseteq BASELINE_TOOLS \union {METRICS}
  BY <1>3, <1>4, ProfileTools DEF Covering
<1>6. 4 \in Covering(wanted)
  <2>1. wanted \subseteq PROFILES[4].tools
    BY <1>5, ProfileTools
  <2>2. 4 \in 1..6
    BY SMT
  <2> QED BY <2>1, <2>2 DEF Covering
<1>7. 5 <= 4
  BY <1>3, <1>4, <1>6
<1> QED BY <1>7

\* seed_data() grants a persona the tools of for_persona(title), and the meeting
\* resolves those tools again: it finds the profile they came from, so that no
\* seeded persona is refused at a meeting's start or runs in another's sandbox.
THEOREM SeededResolvesBack ==
    ASSUME NEW title
    PROVE  resolve(for_persona(title).tools) = for_persona(title)
<1>1. for_persona(title) \in {PROFILES[i] : i \in 1..6}
  <2>1. CASE Titled(title) = {}
    <3>1. for_persona(title) = PROFILES[1]
      BY <2>1 DEF for_persona, PROFILES
    <3> QED BY <3>1
  <2>2. CASE Titled(title) # {}
    <3>1. Titled(title) \in SUBSET (1..6)
      BY DEF Titled
    <3>2. First(Titled(title)) \in 1..6
      BY <2>2, <3>1, FirstIsLeast
    <3> QED BY <2>2, <3>2 DEF for_persona
  <2> QED BY <2>1, <2>2
<1>2. ASSUME NEW i \in 1..6
      PROVE  resolve(PROFILES[i].tools) = PROFILES[i]
  <2> DEFINE tools == PROFILES[i].tools
  <2>1. tools \ {""} = tools /\ tools # {} /\ tools \subseteq ALL_TOOLS
    BY ToolsKnown, ToolNames
  <2>2. Covering(tools) \in SUBSET (1..6) /\ i \in Covering(tools)
    BY DEF Covering
  <2>3. \A j \in Covering(tools) : i <= j
    <3> SUFFICES ASSUME NEW j \in 1..6, tools \subseteq PROFILES[j].tools
                 PROVE  i <= j
      BY DEF Covering
    <3>1. i = 1 \/ i = 2 \/ i = 3 \/ i = 4 \/ i = 5 \/ i = 6
      BY SMT
    <3>2. j = 1 \/ j = 2 \/ j = 3 \/ j = 4 \/ j = 5 \/ j = 6
      BY SMT
    <3>3. i = 2 => POLICY \in tools
      BY ProfileTools
    <3>4. i = 3 => CORPUS \in tools
      BY ProfileTools
    <3>5. i = 4 => METRICS \in tools
      BY ProfileTools
    <3>6. i = 5 => PYTHON \in tools
      BY ProfileTools
    <3>7. i = 6 => METRICS \in tools /\ POLICY \in tools
      BY ProfileTools
    <3>8. PYTHON \in PROFILES[j].tools => j = 5
      BY InterpreterProfile
    <3>9. POLICY \in PROFILES[j].tools => j = 2 \/ j = 6
      BY <3>2, ProfileTools, ToolNames
    <3>10. CORPUS \in PROFILES[j].tools => j = 3 \/ j = 6
      BY <3>2, ProfileTools, ToolNames
    <3>11. METRICS \in PROFILES[j].tools => j = 4 \/ j = 5 \/ j = 6
      BY <3>2, ProfileTools, ToolNames
    <3>12. \/ i = 1
           \/ i = 2 /\ (j = 2 \/ j = 6)
           \/ i = 3 /\ (j = 3 \/ j = 6)
           \/ i = 4 /\ (j = 4 \/ j = 5 \/ j = 6)
           \/ i = 5 /\ j = 5
           \/ i = 6 /\ j = 6
      BY <3>1, <3>3, <3>4, <3>5, <3>6, <3>7, <3>8, <3>9, <3>10, <3>11
    <3> QED BY <3>12, SMT
  <2>4. First(Covering(tools)) = i
    BY <2>2, <2>3, FirstIsLeast, SMT
  <2> QED BY <2>1, <2>2, <2>4 DEF resolve
<1> QED BY <1>1, <1>2
=============================================================================
