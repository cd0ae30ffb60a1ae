----------------------------- MODULE Readiness -----------------------------
(***************************************************************************)
(* What the status page and the readiness probe answer (api/routes/        *)
(* system.py, main.py) from the configuration, the state of the database   *)
(* as SetupSequence!check_db_ready classifies it, and what each of the two *)
(* model endpoints answers within five seconds.  A model's name is a base  *)
(* and a tag, "" where there is none.                                      *)
(***************************************************************************)
EXTENDS Naturals

Tagged(name) == name.tag # ""

\* available: the names an endpoint lists, looked at in turn.
_model_is_served(wanted, available) ==
    \/ wanted \in available
    \/ \E name \in available :
         \/ /\ Tagged(wanted) \/ Tagged(name)
            /\ name.base = wanted.base
            /\ ~ (Tagged(wanted) /\ Tagged(name))
         \/ name.base = wanted.base

\* An endpoint is configured by an address and a model's name.
Configured(endpoint) == endpoint.address # "" /\ (endpoint.model.base # "" \/ Tagged(endpoint.model))

\* answer: whether the endpoint answered at all, with what status and names.
_verify_endpoint(endpoint, answer) ==
    /\ Configured(endpoint)
    /\ answer.reached /\ answer.status = 200
    /\ _model_is_served(endpoint.model, answer.models)

\* What the setup guard of the frontend lets a user in on.
system_status(conf, db, inference, embedding) ==
    LET db_configured == conf.database # "" /\ db = "ready"
        configured == /\ conf.database # ""
                      /\ Configured(conf.inference) /\ Configured(conf.embedding)
    IN  [configured |-> configured,
         ready |-> /\ configured /\ db_configured
                   /\ _verify_endpoint(conf.inference, inference)
                   /\ _verify_endpoint(conf.embedding, embedding)]

\* /readyz: a database that is migrated and empty can be served from.
readiness_check(db) == IF db \in {"ready", "no_data"} THEN 200 ELSE 503
=============================================================================
