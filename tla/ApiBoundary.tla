----------------------------- MODULE ApiBoundary -----------------------------
(***************************************************************************)
(* A request on its way through the API process: the telemetry middleware  *)
(* (api/observability.py), the boundary that authorizes it and reads its   *)
(* body (api/middleware.py, api/security.py), and the router, handlers and *)
(* error handlers of api/app.py.  All requests share one event loop, so a  *)
(* step goes from one await to the next; they meet in the counters of      *)
(* observability.py.                                                       *)
(*                                                                         *)
(* What a request presents is chosen where it is read.  The framework puts *)
(* the handler of unexpected errors outside of all other middleware.       *)
(***************************************************************************)
EXTENDS Naturals, FiniteSets

CONSTANTS
    Requests,
    Principals,
    ScopesOf,   \* the scopes of each principal, of this project
    Limit,      \* the size a body may have
    MaxChunk,   \* bound: size of a piece of a body
    None

Scopes == {"read", "write", "cancel", "observability"}

Methods == {"GET", "POST", "DELETE"}

\* Cancellation with an identifier that is not one is a path of its own.
Paths == {"/health/ready", "/metrics", "/v1/jobs", "/v1/jobs/{job_id}/cancellation",
          "/v1/jobs/{invalid}/cancellation", "/v1/elsewhere"}

VARIABLES
    request,    \* each request: where it is, what it asks for, and its scope state
    response,   \* what its client was answered, or None
    ran,        \* the operations executed for it
    inProgress, errors, decisions    \* the metrics: a gauge and two labelled counters

metrics == <<inProgress, errors, decisions>>
vars == <<request, response, ran, metrics>>

NewRequest == [pc |-> "new", path |-> None, method |-> None, principal |-> None,
               auth |-> None, code |-> None, received |-> 0, whole |-> FALSE]

Codes == {"authentication_required", "permission_denied", "invalid_request",
          "request_body_too_large", "unsupported_content_encoding",
          "unsupported_media_type", "invalid_json", "route_not_found",
          "method_not_allowed", "resource_not_found", "resource_conflict",
          "idempotency_conflict", "invalid_cursor", "invalid_submission",
          "control_plane_error", "persistence_unavailable",
          "readiness_unavailable", "internal_error"}

\* What authenticate and authorize decide about the credential of a request.
AuthOutcomes == {"allowed", "denied", "invalid"}

ASSUME ApiBoundaryAssumption ==
    /\ IsFiniteSet(Requests)
    /\ ScopesOf \in [Principals -> SUBSET Scopes]
    /\ Limit \in Nat /\ MaxChunk \in Nat
    /\ None \notin Principals \cup Scopes \cup Codes \cup AuthOutcomes

(***************************************************************************)
(* Steps shared by the handlers                                            *)
(***************************************************************************)

\* The headers send_with_request_id puts on whatever is sent through it.
BoundaryHeaders == {"cache-control: no-store", "x-request-id"}

\* A response that is sent from inside of both middlewares; code is None unless it
\* is an error.
Reply(r, status, code) ==
    /\ response' = [response EXCEPT ![r] =
          [status |-> status, code |-> code, headers |-> BoundaryHeaders]]
    /\ request' = [request EXCEPT ![r].pc = "finish", ![r].code = code]

Goto(r, pc) == request' = [request EXCEPT ![r].pc = pc] /\ UNCHANGED response

HasBody(r) == request[r].method = "POST"

Passed(r) == IF HasBody(r) THEN "headers" ELSE "route"

(***************************************************************************)
(* Telemetry, outermost                                                    *)
(***************************************************************************)

Arrive(r, path, method) ==
    /\ request[r].pc = "new"
    /\ request' = [request EXCEPT ![r].pc = "authorize", ![r].path = path, ![r].method = method]
    /\ inProgress' = inProgress + 1
    /\ UNCHANGED <<response, ran, errors, decisions>>

Add(counter, label) ==
    [l \in DOMAIN counter |-> counter[l] + (IF l = label THEN 1 ELSE 0)]

\* Mutant: the telemetry is not recorded in a finally clause.
FinishUnraised(r) ==
    /\ request[r].pc \in {"finish", "raise"}
    /\ inProgress' = IF request[r].pc = "raise" THEN inProgress ELSE inProgress - 1
    /\ errors' = Add(errors, request[r].code)
    /\ decisions' = Add(decisions, request[r].auth)
    /\ Goto(r, IF request[r].pc = "raise" THEN "unhandled" ELSE "done")
    /\ UNCHANGED ran

\* request_finished and record_auth_decision.  An exception that passes is counted as
\* an internal error.
Finish(r) ==
    /\ request[r].pc \in {"finish", "raise"}
    /\ inProgress' = inProgress - 1
    /\ errors' = Add(errors, IF request[r].pc = "raise" THEN "internal_error" ELSE request[r].code)
    /\ decisions' = Add(decisions, request[r].auth)
    /\ Goto(r, IF request[r].pc = "raise" THEN "unhandled" ELSE "done")
    /\ UNCHANGED ran

\* unhandled_error_handler, called by the framework outside of both middlewares.
AnswerUnhandled(r) ==
    /\ request[r].pc = "unhandled"
    /\ response' = [response EXCEPT ![r] =
          [status |-> 500, code |-> "internal_error", headers |-> {}]]
    /\ request' = [request EXCEPT ![r].pc = "done", ![r].code = "internal_error"]
    /\ UNCHANGED <<ran, metrics>>

(***************************************************************************)
(* Authorization                                                           *)
(***************************************************************************)

\* _required_scope, which is not told what the router will make of the path.
RequiredScope(path, method) ==
    IF path = "/health/ready" THEN None
    ELSE IF path = "/metrics" THEN "observability"
    ELSE IF method = "GET" THEN "read"
    ELSE IF method = "POST" /\ path = "/v1/jobs/{job_id}/cancellation" THEN "cancel"
    ELSE "write"

\* A principal, or None for any other credential, and a project are presented.
Authorize(r, p, project) ==
    /\ request[r].pc = "authorize"
    /\ LET need == RequiredScope(request[r].path, request[r].method)
           Refuse(outcome, status, code) ==
               /\ response' = [response EXCEPT ![r] =
                     [status |-> status, code |-> code, headers |-> BoundaryHeaders]]
               /\ request' = [request EXCEPT ![r].pc = "finish", ![r].auth = outcome,
                                             ![r].code = code]
       IN  \/ need = None /\ Goto(r, Passed(r))
           \/ need # None /\ p = None /\ Refuse("invalid", 401, "authentication_required")
           \/ /\ need # None /\ p # None
              /\ ~project \/ need \notin ScopesOf[p]
              /\ Refuse("denied", 403, "permission_denied")
           \/ /\ need # None /\ p # None
              /\ project /\ need \in ScopesOf[p]
              /\ request' = [request EXCEPT ![r].pc = Passed(r), ![r].auth = "allowed",
                                            ![r].principal = p]
              /\ UNCHANGED response
    /\ UNCHANGED <<ran, metrics>>

(***************************************************************************)
(* The body                                                                *)
(***************************************************************************)

CheckHeaders(r) ==
    /\ request[r].pc = "headers"
    /\ \/ Reply(r, 400, "invalid_request")              \* Content-Length
       \/ Reply(r, 413, "request_body_too_large")       \* the length it declares
       \/ Reply(r, 415, "unsupported_content_encoding")
       \/ Reply(r, 415, "unsupported_media_type")
       \/ Goto(r, "body")
    /\ UNCHANGED <<ran, metrics>>

\* One piece of the body.  The last one is followed by the strict parser.
Receive(r, size, more) ==
    /\ request[r].pc = "body"
    /\ LET received == request[r].received + size
       IN  \/ received > Limit /\ Reply(r, 413, "request_body_too_large")
           \/ /\ received <= Limit /\ more
              /\ request' = [request EXCEPT ![r].received = received]
              /\ UNCHANGED response
           \/ /\ received <= Limit /\ ~more
              /\ \/ Reply(r, 400, "invalid_json")
                 \/ /\ request' = [request EXCEPT ![r].received = received,
                                                  ![r].whole = TRUE, ![r].pc = "route"]
                    /\ UNCHANGED response
    /\ UNCHANGED <<ran, metrics>>

\* Mutant: a body that breaks off is taken for what arrived of it.
DisconnectEnds(r) == request[r].pc = "body" /\ Goto(r, "route") /\ UNCHANGED <<ran, metrics>>

\* The client goes away before the body is complete.
Disconnect(r) ==
    /\ request[r].pc = "body"
    /\ Reply(r, 400, "invalid_request")
    /\ UNCHANGED <<ran, metrics>>

(***************************************************************************)
(* The router and the handlers                                             *)
(***************************************************************************)

\* The operation behind a path and a method, "404" or "405".
Routed(path, method) ==
    CASE path = "/v1/elsewhere" -> "404"
      [] path = "/health/ready" -> IF method = "GET" THEN "health" ELSE "405"
      [] path = "/metrics" -> IF method = "GET" THEN "observability" ELSE "405"
      [] path = "/v1/jobs" -> IF method = "GET" THEN "read"
                              ELSE IF method = "POST" THEN "write" ELSE "405"
      [] OTHER -> IF method = "POST" THEN "cancel" ELSE "405"

Operation(r) == Routed(request[r].path, request[r].method)

NoOperation(r) ==
    /\ request[r].pc = "route"
    /\ \/ Operation(r) = "404" /\ Reply(r, 404, "route_not_found")
       \/ Operation(r) = "405" /\ Reply(r, 405, "method_not_allowed")
    /\ UNCHANGED <<ran, metrics>>

\* Mutant: the router accepts any identifier.
ValidPathLoose(r) == TRUE

ValidPath(r) == request[r].path # "/v1/jobs/{invalid}/cancellation"

\* validation_error_handler; the health and metrics routes have nothing to validate.
Invalid(r) ==
    /\ request[r].pc = "route" /\ Operation(r) \in {"read", "write", "cancel"}
    /\ Reply(r, 422, "invalid_request")
    /\ UNCHANGED <<ran, metrics>>

\* service_error_handler and store_error_handler
ServiceErrors ==
    {<<404, "resource_not_found">>, <<409, "resource_conflict">>,
     <<409, "idempotency_conflict">>, <<400, "invalid_cursor">>,
     <<422, "invalid_submission">>, <<500, "control_plane_error">>,
     <<503, "persistence_unavailable">>}

\* The handler runs: it answers, raises an error that is translated, or another one.
Handle(r) ==
    /\ request[r].pc = "route" /\ Operation(r) \notin {"404", "405"} /\ ValidPath(r)
    /\ ran' = [ran EXCEPT ![r] = @ \cup {Operation(r)}]
    /\ \/ Reply(r, 200, None)
       \/ /\ Operation(r) = "health"
          /\ Reply(r, 503, "readiness_unavailable")
       \/ /\ Operation(r) \in {"read", "write", "cancel"}
          /\ \E e \in ServiceErrors : Reply(r, e[1], e[2])
       \/ Goto(r, "raise")
    /\ UNCHANGED metrics

Init ==
    /\ request = [r \in Requests |-> NewRequest]
    /\ response = [r \in Requests |-> None]
    /\ ran = [r \in Requests |-> {}]
    /\ inProgress = 0
    /\ errors = [c \in Codes |-> 0]
    /\ decisions = [o \in AuthOutcomes |-> 0]

Next ==
    \E r \in Requests :
        \/ \E path \in Paths, method \in Methods : Arrive(r, path, method)
        \/ \E p \in Principals \cup {None}, project \in BOOLEAN : Authorize(r, p, project)
        \/ CheckHeaders(r)
        \/ \E size \in 0 .. MaxChunk, more \in BOOLEAN : Receive(r, size, more)
        \/ Disconnect(r)
        \/ NoOperation(r) \/ Invalid(r) \/ Handle(r)
        \/ Finish(r) \/ AnswerUnhandled(r)

Spec == Init /\ [][Next]_vars

(***************************************************************************)
(* Properties                                                              *)
(***************************************************************************)

Active == {r \in Requests : request[r].pc \notin {"new", "unhandled", "done"}}
Recorded == {r \in Requests : request[r].pc \in {"unhandled", "done"}}

\* Whatever path of theirs the two readings of a request take, an operation runs only
\* for a principal that was granted the scope of that operation
\* (docs/domain-model.md, "control-plane:read permits protected reads ...").
OperationsArePermitted ==
    \A r \in Requests : \A operation \in ran[r] \ {"health"} :
        /\ request[r].principal # None
        /\ operation \in ScopesOf[request[r].principal]

\* A handler that changes something was given a body that had arrived completely, within
\* the limit and as valid JSON, and no more than the limit is kept of any body.
BodiesAreWhole ==
    \A r \in Requests :
        /\ ran[r] \cap {"write", "cancel"} # {} => request[r].whole
        /\ request[r].received <= Limit

Answered(r) == IF request[r].pc = "unhandled" THEN "internal_error" ELSE response[r].code

\* The metrics say what the clients were answered, whatever the ends of their requests:
\* requests in progress, errors by their code, and decisions about credentials.
MetricsAgree ==
    /\ inProgress = Cardinality(Active)
    /\ \A c \in Codes : errors[c] = Cardinality({r \in Recorded : Answered(r) = c})
    /\ decisions["invalid"] =
          Cardinality({r \in Recorded : Answered(r) = "authentication_required"})
    /\ decisions["denied"] = Cardinality({r \in Recorded : Answered(r) = "permission_denied"})
    /\ decisions["allowed"] = Cardinality({r \in Recorded : request[r].principal # None})

\* The variables have their types.
TypeOK ==
    /\ request \in [Requests ->
          [pc : {"new", "authorize", "headers", "body", "route", "finish", "raise",
                 "unhandled", "done"},
           path : Paths \cup {None}, method : Methods \cup {None},
           principal : Principals \cup {None}, auth : AuthOutcomes \cup {None},
           code : Codes \cup {None}, received : Nat, whole : BOOLEAN]]
    /\ response \in [Requests ->
          [status : Nat, code : Codes \cup {None}, headers : SUBSET BoundaryHeaders]
              \cup {None}]
    /\ ran \in [Requests -> SUBSET (Scopes \cup {"health"})]
    /\ inProgress \in Nat
    /\ errors \in [Codes -> Nat]
    /\ decisions \in [AuthOutcomes -> Nat]

Serving == {"headers", "body", "route"}

\* The boundary lets a request pass with the scope its path and method require.
Cleared(r) ==
    LET need == RequiredScope(request[r].path, request[r].method)
    IN  /\ need = None => request[r].auth = None
        /\ need # None => /\ request[r].auth = "allowed"
                          /\ need \in ScopesOf[request[r].principal]

\* What was decided about a request and what it was answered fit the place it is at.
Decided(r) ==
    LET now == request[r]
    IN  /\ now.pc # "new" => now.path \in Paths /\ now.method \in Methods
        /\ now.auth = "allowed" <=> now.principal # None
        /\ now.pc \in {"new", "authorize"} => now.auth = None
        /\ now.pc \in Serving => Cleared(r)
        /\ now.pc \in {"new", "authorize"} \cup Serving => ran[r] = {}
        /\ now.pc = "route" /\ now.method = "POST" => now.whole
        /\ now.pc \in {"raise", "unhandled"} => now.auth \notin {"invalid", "denied"}
        /\ now.pc \in {"finish", "done"} =>
              /\ response[r].code = now.code
              /\ now.code = "authentication_required" <=> now.auth = "invalid"
              /\ now.code = "permission_denied" <=> now.auth = "denied"

\* The inductive invariant.
IInv ==
    /\ TypeOK
    /\ \A r \in Requests : Decided(r)
    /\ OperationsArePermitted /\ BodiesAreWhole /\ MetricsAgree

\* No response may be cached (docs/adr/0009-privacy-bounded-dashboard-projections.md:
\* "All API responses use Cache-Control: no-store").
ResponsesAreUncacheable ==
    \A r \in Requests :
        response[r] # None => "cache-control: no-store" \in response[r].headers
=============================================================================
