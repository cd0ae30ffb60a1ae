--------------------------- MODULE ServicesProofs ---------------------------
(***************************************************************************)
(* Proofs about the settings cache, for any readers, updaters and number   *)
(* of changes, and about who may do what, for any tokens and identities.   *)
(***************************************************************************)
EXTENDS SettingsCache, Access, Readiness, TLAPS

Contents == Nat \union {NoRow}

Steps == {"idle", "got", "made", "read", "committed", "failed"}

\* The types, and which task is at which step.
CacheTyped ==
    /\ row \in Contents /\ cache \in Contents
    /\ step \in [Tasks -> Steps]
    /\ seen \in [Tasks -> Contents]
    /\ behind \subseteq Reader /\ raced \subseteq Tasks
    /\ late \in BOOLEAN /\ missed \in BOOLEAN
    /\ \A u \in Updater : step[u] \in {"idle", "read", "committed", "failed"}
    /\ \A t \in Tasks : step[t] = "idle" => t \notin raced
    /\ \A r \in Reader : step[r] = "idle" => r \notin behind

\* Nobody has read more than the row says, and who has found no row has raced
\* with whoever made one since.
Older ==
    /\ cache # NoRow => row # NoRow /\ cache <= row
    /\ \A t \in Tasks : seen[t] # NoRow => row # NoRow /\ seen[t] <= row
    /\ \A t \in Tasks : step[t] = "made" => row # NoRow

\* A reader that is not behind has read what the row says; and a copy that is not
\* what it says was made by one that is, was left by a change that failed, or is
\* about to be dropped.
Fresh ==
    /\ \A r \in Reader : step[r] = "got" /\ seen[r] # NoRow /\ seen[r] # row => r \in behind
    /\ cache \notin {NoRow, row} => late \/ missed \/ \E u \in Updater : step[u] = "committed"

\* Two tasks that found no row have both raced, and so has every one of them
\* once there is a row it did not make.
Racing ==
    /\ \A t, o \in Making : t # o => t \in raced
    /\ row # NoRow => \A t \in Tasks : step[t] \in {"got", "read"} /\ seen[t] = NoRow => t \in raced
    /\ RefusedOnlyRaced

CacheInv == CacheTyped /\ Older /\ Fresh /\ Racing

\* Every step keeps the types.
LEMMA CacheTypedStep ==
    ASSUME CacheTyped, [CacheNext]_cacheVars
    PROVE  CacheTyped'
<1> USE UpdatesBound, ReadersApart
<1> USE DEF CacheTyped, Contents, Steps, Tasks, Making
<1>1. ASSUME NEW r \in Reader, _load_tunables(r) PROVE CacheTyped'
  BY <1>1 DEF _load_tunables, Get, To
<1>2. ASSUME NEW r \in Reader, MakeRow(r) PROVE CacheTyped'
  BY <1>2 DEF MakeRow, To
<1>3. ASSUME NEW r \in Reader, Refresh(r) PROVE CacheTyped'
  BY <1>3 DEF Refresh, To
<1>4. ASSUME NEW r \in Reader, Fill(r) PROVE CacheTyped'
  <2>1. late' \in BOOLEAN
    BY <1>4 DEF Fill
  <2>2. missed' \in BOOLEAN
    BY <1>4 DEF Fill
  <2>3. QED
    BY <1>4, <2>1, <2>2 DEF Fill, Rest, To
<1>5. ASSUME NEW u \in Updater, update_tunables(u) PROVE CacheTyped'
  BY <1>5 DEF update_tunables, Get, To
<1>6. ASSUME NEW u \in Updater, Reject(u) PROVE CacheTyped'
  BY <1>6 DEF Reject, Rest, To
<1>7. ASSUME NEW u \in Updater, CommitUpdate(u) PROVE CacheTyped'
  BY <1>7 DEF CommitUpdate, To
<1>8. ASSUME NEW u \in Updater, invalidate_cache(u) PROVE CacheTyped'
  BY <1>8 DEF invalidate_cache, Rest, To
<1>9. ASSUME NEW t \in Tasks, InsertRefused(t) PROVE CacheTyped'
  BY <1>9 DEF InsertRefused
<1>10. ASSUME NEW t \in Tasks, ReportFailure(t) PROVE CacheTyped'
  BY <1>10 DEF ReportFailure, Rest, To
<1>11. ASSUME NEW t \in Tasks, DatabaseFails(t) PROVE CacheTyped'
  BY <1>11 DEF DatabaseFails, Rest, To
<1>12. CASE CacheRestart
  BY <1>12 DEF CacheRestart
<1>13. CASE UNCHANGED cacheVars
  BY <1>13 DEF cacheVars
<1>14. QED
  BY <1>1, <1>2, <1>3, <1>4, <1>5, <1>6, <1>7, <1>8, <1>9, <1>10, <1>11, <1>12, <1>13
     DEF CacheNext

\* No step leaves anyone with more than the row.
LEMMA OlderStep ==
    ASSUME CacheTyped, Older, [CacheNext]_cacheVars
    PROVE  Older'
<1> USE UpdatesBound, ReadersApart
<1> USE DEF CacheTyped, Older, Contents, Steps, Tasks
<1>1. ASSUME NEW r \in Reader, _load_tunables(r) PROVE Older'
  BY <1>1 DEF _load_tunables, Get, To
<1>2. ASSUME NEW r \in Reader, MakeRow(r) PROVE Older'
  BY <1>2 DEF MakeRow, To
<1>3. ASSUME NEW r \in Reader, Refresh(r) PROVE Older'
  BY <1>3 DEF Refresh, To
<1>4. ASSUME NEW r \in Reader, Fill(r) PROVE Older'
  BY <1>4 DEF Fill, Rest, To
<1>5. ASSUME NEW u \in Updater, update_tunables(u) PROVE Older'
  BY <1>5 DEF update_tunables, Get, To
<1>6. ASSUME NEW u \in Updater, Reject(u) PROVE Older'
  BY <1>6 DEF Reject, Rest, To
<1>7. ASSUME NEW u \in Updater, CommitUpdate(u) PROVE Older'
  BY <1>7 DEF CommitUpdate, To
<1>8. ASSUME NEW u \in Updater, invalidate_cache(u) PROVE Older'
  BY <1>8 DEF invalidate_cache, Rest, To
<1>9. ASSUME NEW t \in Tasks, InsertRefused(t) PROVE Older'
  BY <1>9 DEF InsertRefused
<1>10. ASSUME NEW t \in Tasks, ReportFailure(t) PROVE Older'
  BY <1>10 DEF ReportFailure, Rest, To
<1>11. ASSUME NEW t \in Tasks, DatabaseFails(t) PROVE Older'
  BY <1>11 DEF DatabaseFails, Rest, To
<1>12. CASE CacheRestart
  BY <1>12 DEF CacheRestart
<1>13. CASE UNCHANGED cacheVars
  BY <1>13 DEF cacheVars
<1>14. QED
  BY <1>1, <1>2, <1>3, <1>4, <1>5, <1>6, <1>7, <1>8, <1>9, <1>10, <1>11, <1>12, <1>13
     DEF CacheNext

\* No step leaves a stale content unexplained.
LEMMA FreshStep ==
    ASSUME CacheTyped, Older, Fresh, [CacheNext]_cacheVars
    PROVE  Fresh'
<1> USE UpdatesBound, ReadersApart
<1> USE DEF CacheTyped, Older, Fresh, Contents, Steps, Tasks
<1>1. ASSUME NEW r \in Reader, _load_tunables(r) PROVE Fresh'
  BY <1>1 DEF _load_tunables, Get, To
<1>2. ASSUME NEW r \in Reader, MakeRow(r) PROVE Fresh'
  BY <1>2 DEF MakeRow, To
<1>3. ASSUME NEW r \in Reader, Refresh(r) PROVE Fresh'
  BY <1>3 DEF Refresh, To
<1>4. ASSUME NEW r \in Reader, Fill(r) PROVE Fresh'
  BY <1>4 DEF Fill, Rest, To
<1>5. ASSUME NEW u \in Updater, update_tunables(u) PROVE Fresh'
  BY <1>5 DEF update_tunables, Get, To
<1>6. ASSUME NEW u \in Updater, Reject(u) PROVE Fresh'
  BY <1>6 DEF Reject, Rest, To
<1>7. ASSUME NEW u \in Updater, CommitUpdate(u) PROVE Fresh'
  BY <1>7 DEF CommitUpdate, To
<1>8. ASSUME NEW u \in Updater, invalidate_cache(u) PROVE Fresh'
  BY <1>8 DEF invalidate_cache, Rest, To
<1>9. ASSUME NEW t \in Tasks, InsertRefused(t) PROVE Fresh'
  BY <1>9 DEF InsertRefused
<1>10. ASSUME NEW t \in Tasks, ReportFailure(t) PROVE Fresh'
  BY <1>10 DEF ReportFailure, Rest, To
<1>11. ASSUME NEW t \in Tasks, DatabaseFails(t) PROVE Fresh'
  BY <1>11 DEF DatabaseFails, Rest, To
<1>12. CASE CacheRestart
  BY <1>12 DEF CacheRestart
<1>13. CASE UNCHANGED cacheVars
  BY <1>13 DEF cacheVars
<1>14. QED
  BY <1>1, <1>2, <1>3, <1>4, <1>5, <1>6, <1>7, <1>8, <1>9, <1>10, <1>11, <1>12, <1>13
     DEF CacheNext

\* No step lets a task that is alone fail.
LEMMA RacingStep ==
    ASSUME CacheTyped, Older, Racing, [CacheNext]_cacheVars
    PROVE  Racing'
<1> USE UpdatesBound, ReadersApart
<1> USE DEF CacheTyped, Older, Racing, RefusedOnlyRaced, Contents, Steps, Tasks, Making
<1>1. ASSUME NEW r \in Reader, _load_tunables(r) PROVE Racing'
  BY <1>1 DEF _load_tunables, Get, To
<1>2. ASSUME NEW r \in Reader, MakeRow(r) PROVE Racing'
  BY <1>2 DEF MakeRow, To
<1>3. ASSUME NEW r \in Reader, Refresh(r) PROVE Racing'
  BY <1>3 DEF Refresh, To
<1>4. ASSUME NEW r \in Reader, Fill(r) PROVE Racing'
  BY <1>4 DEF Fill, Rest, To
<1>5. ASSUME NEW u \in Updater, update_tunables(u) PROVE Racing'
  BY <1>5 DEF update_tunables, Get, To
<1>6. ASSUME NEW u \in Updater, Reject(u) PROVE Racing'
  BY <1>6 DEF Reject, Rest, To
<1>7. ASSUME NEW u \in Updater, CommitUpdate(u) PROVE Racing'
  BY <1>7 DEF CommitUpdate, To
<1>8. ASSUME NEW u \in Updater, invalidate_cache(u) PROVE Racing'
  BY <1>8 DEF invalidate_cache, Rest, To
<1>9. ASSUME NEW t \in Tasks, InsertRefused(t) PROVE Racing'
  BY <1>9 DEF InsertRefused
<1>10. ASSUME NEW t \in Tasks, ReportFailure(t) PROVE Racing'
  BY <1>10 DEF ReportFailure, Rest, To
<1>11. ASSUME NEW t \in Tasks, DatabaseFails(t) PROVE Racing'
  BY <1>11 DEF DatabaseFails, Rest, To
<1>12. CASE CacheRestart
  BY <1>12 DEF CacheRestart
<1>13. CASE UNCHANGED cacheVars
  BY <1>13 DEF cacheVars
<1>14. QED
  BY <1>1, <1>2, <1>3, <1>4, <1>5, <1>6, <1>7, <1>8, <1>9, <1>10, <1>11, <1>12, <1>13
     DEF CacheNext

\* The inductive invariant holds in every reachable state.
THEOREM CacheInvariance == CacheSpec => []CacheInv
<1>1. CacheInit => CacheInv
  BY UpdatesBound, ReadersApart
     DEF CacheInit, CacheInv, CacheTyped, Older, Fresh, Racing, RefusedOnlyRaced, Making,
         Contents, Steps, Tasks
<1>2. CacheInv /\ [CacheNext]_cacheVars => CacheInv'
  BY CacheTypedStep, OlderStep, FreshStep, RacingStep DEF CacheInv
<1>3. QED
  BY <1>1, <1>2, PTL DEF CacheSpec

\* A stale copy of the settings is an older content, and comes of an update that
\* has just been committed, of a read that was under way when it was, or of an
\* update that failed before it dropped the copy.
THEOREM StaleExplained == CacheSpec => []StaleAccountedFor
<1>1. CacheInv => StaleAccountedFor
  BY UpdatesBound
     DEF CacheInv, CacheTyped, Older, Fresh, StaleAccountedFor, Contents
<1>2. QED
  BY <1>1, CacheInvariance, PTL

\* No request on the settings fails but for another that found no row either.
THEOREM AloneNeverRefused == CacheSpec => []RefusedOnlyRaced
BY CacheInvariance, PTL DEF CacheInv, Racing

-----------------------------------------------------------------------------
\* Only the operator's role can do what the operator's role is required for.
LEMMA RolesRank ==
    /\ can("operator", "operator") /\ can("operator", "viewer")
    /\ can("viewer", "viewer") /\ ~ can("viewer", "operator")
BY DEF can, Rank

\* A role is given for the token it is configured for.
LEMMA RolesNeedTokens ==
    ASSUME NEW conf, NEW token
    PROVE  /\ resolve_token(conf, token) \in {"operator", "viewer", "nobody"}
           /\ resolve_token(conf, token) = "operator" => token = conf.operator /\ token # Unset
           /\ resolve_token(conf, token) = "viewer" => token = conf.viewer /\ token # Unset
BY DEF resolve_token, _match

\* Whoever the tokens are given to, a request that changes anything runs only
\* for the operator's token in a bearer header, and one that only reads for that
\* or the viewer's, unless authentication is switched off.
THEOREM ChangesNeedTheOperator ==
    ASSUME NEW conf, NEW header, NEW method, conf.enabled,
           require_api_access(conf, header, method) = 200
    PROVE  /\ header.prefixed /\ _bearer(header) # Unset
           /\ _bearer(header) \in {conf.operator, conf.viewer}
           /\ method \notin SAFE_METHODS => _bearer(header) = conf.operator
<1> DEFINE token == _bearer(header)
           role == resolve_token(conf, token)
           required == IF method \in SAFE_METHODS THEN "viewer" ELSE "operator"
<1>1. authenticate(conf, header) # "nobody"
  BY DEF require_api_access
<1>2. header.prefixed /\ authenticate(conf, header) = role
  BY <1>1 DEF authenticate
<1>3. role # "nobody"
  BY <1>1, <1>2
<1>4. can(role, required)
  BY <1>2, <1>3 DEF require_api_access
<1>5. role \in {"operator", "viewer"}
  BY <1>3, RolesNeedTokens
<1>6. method \notin SAFE_METHODS => role = "operator"
  BY <1>4, <1>5, RolesRank
<1>7. /\ role = "operator" => token = conf.operator /\ token # Unset
      /\ role = "viewer" => token = conf.viewer /\ token # Unset
  BY RolesNeedTokens
<1> HIDE DEF role
<1>8. QED
  BY <1>2, <1>5, <1>6, <1>7

\* The socket a meeting is steered through opens only for the operator's token.
THEOREM SocketNeedsTheOperator ==
    ASSUME NEW conf, NEW offered, conf.enabled,
           authenticate_websocket(conf, offered, "operator")
    PROVE  Strip(offered.second) = conf.operator /\ Strip(offered.second) # Unset
<1>1. /\ resolve_token(conf, Strip(offered.second)) # "nobody"
      /\ can(resolve_token(conf, Strip(offered.second)), "operator")
  BY DEF authenticate_websocket
<1>2. resolve_token(conf, Strip(offered.second)) = "operator"
  BY <1>1, RolesNeedTokens, RolesRank
<1>3. QED
  BY <1>2, RolesNeedTokens

\* A process that starts with authentication on has somebody who can change
\* things exactly when the operator's token is configured without blanks around
\* it: with them it starts all the same, and no header is ever answered as the
\* operator's, for what is presented is stripped and what is configured is not.
THEOREM SteerableUnlessPadded ==
    ASSUME NEW conf, conf.enabled, ~ configuration_error(conf),
           NEW text, NEW blanks, conf.operator = [text |-> text, blanks |-> blanks],
           NEW method, method \notin SAFE_METHODS
    PROVE  (\E header : require_api_access(conf, header, method) = 200) <=> blanks = ""
<1>1. ASSUME NEW header, require_api_access(conf, header, method) = 200 PROVE blanks = ""
  <2>1. Strip(header.rest) = conf.operator
    BY <1>1, ChangesNeedTheOperator DEF _bearer
  <2>2. Strip(header.rest).blanks = ""
    BY DEF Strip
  <2>3. conf.operator.blanks = blanks
    OBVIOUS
  <2>4. QED
    BY <2>1, <2>2, <2>3
<1>2. ASSUME blanks = "" PROVE \E header : require_api_access(conf, header, method) = 200
  <2> DEFINE sent == [prefixed |-> TRUE, rest |-> conf.operator]
  <2>1. conf.operator = [text |-> text, blanks |-> ""]
    BY <1>2
  <2>2. _bearer(sent) = conf.operator
    <3>1. sent.rest = conf.operator
      OBVIOUS
    <3>2. conf.operator.text = text
      OBVIOUS
    <3> HIDE DEF sent
    <3>3. _bearer(sent) = [text |-> text, blanks |-> ""]
      BY <3>1, <3>2 DEF _bearer, Strip
    <3>4. QED
      BY <2>1, <3>3
  <2>3. resolve_token(conf, _bearer(sent)) = "operator"
    BY <2>2 DEF configuration_error, resolve_token, _match
  <2>4. authenticate(conf, sent) = "operator"
    BY <2>3 DEF authenticate
  <2>5. require_api_access(conf, sent, method) = 200
    BY <2>4, RolesRank DEF require_api_access
  <2>6. QED
    BY <2>5
<1>3. QED
  BY <1>1, <1>2

\* A persona whose pod carries both labels is answered from the company's
\* library, its own and its meeting's, whatever its request says of itself.
THEOREM OwnLibrariesOnly ==
    ASSUME NEW D, NEW body, NEW id, Labelled(id),
           NEW d \in retrieval_search(D, body, id).from
    PROVE  /\ d \in D
           /\ \/ d.scope = "company"
              \/ d.scope = "agent" /\ d.owner = id.agent
              \/ d.scope = "meeting" /\ d.meeting = id.meeting
<1> DEFINE scopes == body.scopes \intersect Scopes
<1>1. scopes # {}
  BY DEF retrieval_search
<1>2. d \in semantic_search(D, scopes, id)
  BY <1>1 DEF retrieval_search
<1>3. Filters(scopes, id) = scopes
  BY DEF Filters, Labelled
<1>4. PICK f \in scopes : d \in D /\ Passes(d, f, id)
  BY <1>1, <1>2, <1>3 DEF semantic_search
<1>5. QED
  BY <1>4 DEF Passes, Scopes

\* What a labelled persona produces is its own and its meeting's whatever it
\* claims, and is read by the labelled personas of that meeting and by no others.
THEOREM ArtifactsStayInTheMeeting ==
    ASSUME NEW body, NEW author, NEW reader, Labelled(author), Labelled(reader)
    PROVE  /\ create_artifact(body, author).agent = author.agent
           /\ read_artifact(create_artifact(body, author), reader) = 200
                <=> reader.meeting = author.meeting
<1> DEFINE made == create_artifact(body, author)
<1>1. made.agent = author.agent /\ made.meeting = author.meeting
  BY DEF create_artifact, _meeting_uuid, Labelled
<1>2. read_artifact(made, reader) = IF made.meeting # reader.meeting THEN 403 ELSE 200
  BY DEF read_artifact, Labelled
<1>3. 403 # 200
  OBVIOUS
<1>4. QED
  BY <1>1, <1>2, <1>3
-----------------------------------------------------------------------------
\* A model counts as served whatever the tags say, of both names: only the names
\* before the tags are compared, where the docstring of _model_is_served has them
\* compared only "when either side omits a tag".
THEOREM TagsNeverMatter ==
    ASSUME NEW wanted, NEW available
    PROVE  _model_is_served(wanted, available)
             <=> \E name \in available : name.base = wanted.base
BY DEF _model_is_served

\* The status page shows a system as ready whatever tags its models are served
\* under: an endpoint that comes to list other tags of the same names, and no
\* longer the configured one, leaves it ready.
THEOREM ReadyWhateverTheTag ==
    ASSUME NEW conf, NEW db, NEW inference, NEW retagged, NEW embedding,
           system_status(conf, db, inference, embedding).ready,
           retagged.reached, retagged.status = 200,
           \A name \in inference.models : \E other \in retagged.models : other.base = name.base
    PROVE  system_status(conf, db, retagged, embedding).ready
<1>1. /\ system_status(conf, db, inference, embedding).configured
      /\ conf.database # "" /\ db = "ready"
      /\ _verify_endpoint(conf.inference, inference)
      /\ _verify_endpoint(conf.embedding, embedding)
  BY DEF system_status
<1>2. Configured(conf.inference) /\ _model_is_served(conf.inference.model, inference.models)
  BY <1>1 DEF _verify_endpoint
<1>3. PICK name \in inference.models : name.base = conf.inference.model.base
  BY <1>2, TagsNeverMatter
<1>4. PICK other \in retagged.models : other.base = name.base
  OBVIOUS
<1>5. _model_is_served(conf.inference.model, retagged.models)
  BY <1>3, <1>4, TagsNeverMatter
<1>6. _verify_endpoint(conf.inference, retagged)
  BY <1>2, <1>5 DEF _verify_endpoint
<1>7. QED
  BY <1>1, <1>6 DEF system_status
=============================================================================
