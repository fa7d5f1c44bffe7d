---------------------------- MODULE ServiceErrors ---------------------------
(***************************************************************************)
(* How calls of the embedding and generation services fail (backend/app/   *)
(* services/embedding/errors.py, services/generation/errors.py), which     *)
(* failures are tried again, and what becomes of the others                *)
(* (api/errors.py, agent/run_errors.py).                                   *)
(***************************************************************************)

(* "overloaded" is 429 or 5xx, "rejected" any other error status.          *)
CallErrors == {"timeout", "transport", "overloaded", "rejected", "malformed"}

ConfigurationError == "configuration"

(* _is_retryable, the same for both services.                              *)
Retryable(error) == error \in {"timeout", "transport", "overloaded"}

(* embedding_http_exception                                                *)
HttpStatus(error) == IF Retryable(error) \/ error = ConfigurationError THEN 503 ELSE 502

(* classify_agent_error: what the error history keeps of an error, and     *)
(* whether it says that another try may help.                              *)
Kind == [configuration |-> "embedding_configuration", timeout |-> "embedding_timeout",
         transport |-> "embedding_transport", overloaded |-> "embedding_api",
         rejected |-> "embedding_api", malformed |-> "embedding_response"]

Classified(error) ==
    IF error \in DOMAIN Kind
    THEN [kind |-> Kind[error], retryable |-> Retryable(error)]
    ELSE [kind |-> "unexpected", retryable |-> FALSE]
=============================================================================
