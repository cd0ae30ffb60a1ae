------------------------------- MODULE Access -------------------------------
(***************************************************************************)
(* Who may do what: an operator at the public API (core/auth.py), and a    *)
(* persona's sandbox at the internal API (api/routes/internal.py with      *)
(* services/vector_search.py).  Nothing here has state: every operator is  *)
(* what one request is answered, given who the caller was verified to be.  *)
(* Ids and meetings are opaque values; "" is one that is not set.  A token *)
(* is its text and the blanks around it, ASCII both: hmac.compare_digest   *)
(* raises on anything else.                                                *)
(***************************************************************************)
EXTENDS Naturals

-----------------------------------------------------------------------------
(* Operators and viewers.                                                  *)

Unset == [text |-> "", blanks |-> ""]

\* str.strip.
Strip(token) == [text |-> token.text, blanks |-> ""]

\* ROLE_ORDER, least privileged first.
Rank(role) == IF role = "operator" THEN 2 ELSE 1

can(role, required) == Rank(role) >= Rank(required)

_match(candidate, configured) == configured # Unset /\ candidate = configured

\* conf: AUTH_ENABLED and the two tokens as they are configured, which nothing
\* strips.  The operator's wins.
resolve_token(conf, token) ==
    IF _match(token, conf.operator) THEN "operator"
    ELSE IF _match(token, conf.viewer) THEN "viewer"
    ELSE "nobody"

\* The process refuses to start over it; blanks alone are a token to it.
configuration_error(conf) == conf.enabled /\ conf.operator = Unset

\* header: whether it begins with "Bearer ", and what follows.  What is presented
\* is stripped before it is compared.
_bearer(header) == Strip(header.rest)

authenticate(conf, header) ==
    IF ~ conf.enabled THEN "operator"
    ELSE IF header.prefixed THEN resolve_token(conf, _bearer(header)) ELSE "nobody"

SAFE_METHODS == {"GET", "HEAD", "OPTIONS"}

\* The status a request is answered before its handler runs, 200 if it runs.
require_api_access(conf, header, method) ==
    LET role == authenticate(conf, header)
        required == IF method \in SAFE_METHODS THEN "viewer" ELSE "operator"
    IN  IF role = "nobody" THEN 401 ELSE IF can(role, required) THEN 200 ELSE 403

\* The handshake of the meeting's socket is to offer "bearer" and the token.
\* offered: how many values it has that are not blank, and the first two of them.
authenticate_websocket(conf, offered, required) ==
    LET role == resolve_token(conf, Strip(offered.second))
    IN  \/ ~ conf.enabled
        \/ /\ offered.count = 2 /\ Strip(offered.first).text = "bearer"
           /\ role # "nobody" /\ can(role, required)

-----------------------------------------------------------------------------
(* Personas.  id: the agent and the meeting on the labels of the caller's  *)
(* pod, which the manager's claim put there as well-formed ids.            *)

\* What the backend makes of a bearer token: review is the cluster's answer to
\* it, conf the two namespaces sandboxes run in, and labels those of the pod the
\* token is bound to, empty if there is none or it cannot be read.
SandboxIdentity(conf, review, labels) ==
    IF ~ review.authenticated THEN [status |-> 401, id |-> [agent |-> "", meeting |-> ""]]
    ELSE IF ~ review.serviceaccount \/ review.namespace \notin conf.namespaces
    THEN [status |-> 403, id |-> [agent |-> "", meeting |-> ""]]
    ELSE [status |-> 200, id |-> labels]

Scopes == {"company", "agent", "meeting"}

Labelled(id) == id.agent # "" /\ id.meeting # ""

\* The metadata filters that a search for these scopes gets.
Filters(scopes, id) ==
    scopes \ ( (IF id.agent = "" THEN {"agent"} ELSE {})
               \union (IF id.meeting = "" THEN {"meeting"} ELSE {}) )

Passes(d, f, id) ==
    /\ d.scope = f
    /\ f = "agent" => d.owner = id.agent
    /\ f = "meeting" => d.meeting = id.meeting

\* Of the documents D, those whose chunks are ranked; no filter, no restriction.
semantic_search(D, scopes, id) ==
    IF Filters(scopes, id) = {} THEN D
    ELSE {d \in D : \E f \in Filters(scopes, id) : Passes(d, f, id)}

\* What the body says of the caller is logged, not used; a search for no known
\* scope is refused.
retrieval_search(D, body, id) ==
    LET scopes == body.scopes \intersect Scopes
    IN  IF scopes = {} THEN [status |-> 400, from |-> {}]
        ELSE [status |-> 200, from |-> semantic_search(D, scopes, id)]

\* The verified meeting before the claimed one.
_meeting_uuid(id, claimed) == IF id.meeting # "" THEN id.meeting ELSE claimed

create_artifact(body, id) ==
    [meeting |-> _meeting_uuid(id, body.meeting), agent |-> id.agent, body |-> body.text]

read_artifact(artifact, id) ==
    IF id.meeting # "" /\ artifact.meeting # id.meeting THEN 403 ELSE 200

\* The owner the body names is not stored.
create_action_item(body, id) ==
    [meeting |-> _meeting_uuid(id, body.meeting), raised_by |-> id.agent,
     text |-> body.text, due |-> body.due]
=============================================================================
